---- MODULE Spec2Model ----
(***************************************************************************)
(* The binary serialization protocol of mnist-rs: the primitive codecs of  *)
(* the `serialization` crate, the Vector and Matrix codecs, the derived    *)
(* struct / enum / unit codecs of `serialize-macro`, and the two Network   *)
(* codecs (neural-network/src/lib.rs over the derived layer codecs, and    *)
(* src/src/network/serializer.rs over the hand-written ones), and the      *)
(* saving and loading of a network to and from a file.                     *)
(*                                                                         *)
(* Representation.  A byte buffer is a sequence over 0..255.  A Rust slice *)
(* `&data[off..]` is the pair (data, off), a view and not a copy, so every *)
(* decoder takes the buffer and the 0-based offset at which its slice      *)
(* starts.  An f64 is its 64-bit pattern, a u64 / usize its value; model   *)
(* words stay below 2^31, so the four most significant bytes of an         *)
(* encoded word are zero; signed values lie in -2^31 .. 2^31 - 1, in       *)
(* two's complement.  usize is 8 bytes wide (a 64-bit target).  A          *)
(* String is its UTF-8 bytes.  A panic (index out of range, unwrap,        *)
(* assert_eq!, panic!) is a Fault result.                                  *)
(***************************************************************************)
EXTENDS Integers, Sequences, FiniteSets, TLC

(***************************************************************************)
(* Bounds of the model.                                                    *)
(***************************************************************************)
MaxLen == 2        \* longest Vector / String checked on its own
MaxDim == 2        \* most rows / columns of a Matrix, most biases of a Dense
MaxLayers == 2     \* longest layer list of a Network

(***************************************************************************)
(* Results of deserialize_binary: (value, consumed) or a panic.            *)
(***************************************************************************)
Ok(v, n) == [ok |-> TRUE, val |-> v, len |-> n, err |-> "none"]
Fault(e) == [ok |-> FALSE, val |-> <<>>, len |-> 0, err |-> e]

OutOfRange == "index out of range"
InvalidUtf8 == "invalid utf-8"
TagMismatch == "assert_eq tag"
InvalidVariant == "invalid enum variant"
InvalidLayerTag == "Invalid layer tag"
InvalidActivation == "Invalid activation function"

RECURSIVE serialize_binary(_, _)
RECURSIVE deserialize_binary(_, _, _)

(***************************************************************************)
(* String constants of the program, as UTF-8 bytes.                        *)
(***************************************************************************)
StrDense == <<68, 101, 110, 115, 101>>                           \* "Dense"
StrActivation == <<65, 99, 116, 105, 118, 97, 116, 105, 111, 110>> \* "Activation"
StrSigmoid == <<83, 105, 103, 109, 111, 105, 100>>               \* "Sigmoid"
StrReLU == <<82, 101, 76, 85>>                                   \* "ReLU"
StrTanh == <<84, 97, 110, 104>>                                  \* "Tanh"
StrTestEnum == <<84, 101, 115, 116, 69, 110, 117, 109>>          \* "TestEnum"
StrOneTest == <<79, 110, 101, 84, 101, 115, 116>>                \* "OneTest"
StrTwoTest == <<84, 119, 111, 84, 101, 115, 116>>                \* "TwoTest"
StrPair == <<80, 97, 105, 114>>                                  \* "Pair"
StrUnit == <<85, 110, 105, 116>>                                 \* "Unit"
StrColons == <<58, 58>>                                          \* "::"
StrSpace == <<32>>                                               \* " "

(***************************************************************************)
(* Primitive codec: serialization/src/literals.rs.                         *)
(***************************************************************************)
\* Mutant of to_be_bytes: the least significant byte comes first.
to_le_bytes(v, w) ==
    [k \in 1..w |-> IF k - 1 >= 4 THEN 0 ELSE (v \div (256 ^ (k - 1))) % 256]

\* uN::to_be_bytes for a w-byte word v < 2^31: byte k (1-based) is
\* (v div 256^(w-k)) mod 256; the bytes above the fourth are zero.
to_be_bytes(v, w) ==
    [k \in 1..w |-> IF w - k >= 4 THEN 0 ELSE (v \div (256 ^ (w - k))) % 256]

\* u64::from_be_bytes of data[off..off+8]. A word of 2^31 or more is
\* reported as 2147483647: it is only ever used as a length, and exceeds
\* the length of every buffer of the model.
from_be_bytes(data, off) ==
    IF \/ \E k \in 1..4 : data[off + k] # 0
       \/ data[off + 5] >= 128
    THEN 2147483647
    ELSE data[off + 5] * 16777216 + data[off + 6] * 65536
         + data[off + 7] * 256 + data[off + 8]

\* u64_from_bytes / u64::deserialize_binary: b[0]..b[7] are bounds-checked.
u64_from_bytes(data, off) ==
    IF off + 8 > Len(data) THEN Fault(OutOfRange)
    ELSE Ok(from_be_bytes(data, off), 8)

\* Mutant of f64_from_bytes: a short read is padded with zero bytes.
f64_from_bytes_zero_fill(data, off) ==
    IF off + 8 > Len(data) THEN Ok(0, 8)
    ELSE Ok(from_be_bytes(data, off), 8)

\* f64_from_bytes / f64::deserialize_binary (the value is its bit pattern).
f64_from_bytes(data, off) ==
    IF off + 8 > Len(data) THEN Fault(OutOfRange)
    ELSE Ok(from_be_bytes(data, off), 8)

\* usize::deserialize_binary on a 64-bit target: Target = u64.
usize_deserialize_binary(data, off) == u64_from_bytes(data, off)

\* iN::to_be_bytes for a w-byte word -2^31 <= v < 2^31, in two's complement:
\* a negative v is the bitwise complement of -(v + 1).
signed_to_be_bytes(v, w) ==
    IF v >= 0 THEN to_be_bytes(v, w)
    ELSE [k \in 1..w |-> 255 - to_be_bytes(-(v + 1), w)[k]]

\* uN::from_be_bytes of the w bytes data[off..off+w], w <= 4. A word of 2^31
\* or more is reported as 2147483647 (the model's words stay below 2^31).
RECURSIVE unsigned_from_be_bytes(_, _, _)
unsigned_from_be_bytes(data, off, w) ==
    IF w = 0 THEN 0
    ELSE IF w = 4 /\ data[off + 1] >= 128 THEN 2147483647
    ELSE data[off + 1] * (256 ^ (w - 1)) + unsigned_from_be_bytes(data, off + 1, w - 1)

\* Mutant of signed_from_be_bytes: the sign bit is read as a value bit.
signed_from_be_bytes_unsigned(data, off, w) ==
    unsigned_from_be_bytes(data, off, w)

\* iN::from_be_bytes of the w bytes data[off..off+w], w <= 4: with the sign
\* bit set the value is -(complement) - 1.
signed_from_be_bytes(data, off, w) ==
    IF data[off + 1] < 128 THEN unsigned_from_be_bytes(data, off, w)
    ELSE -unsigned_from_be_bytes([k \in 1..w |-> 255 - data[off + k]], 0, w) - 1

\* i64_from_bytes / i64::deserialize_binary: b[0]..b[7] are bounds-checked.
\* A word outside -2^31 .. 2^31 - 1 is reported as the nearest end of that
\* range.
i64_from_bytes(data, off) ==
    IF off + 8 > Len(data) THEN Fault(OutOfRange)
    ELSE IF data[off + 1] < 128
         THEN Ok(from_be_bytes(data, off), 8)
         ELSE IF \A k \in 1..4 : data[off + k] = 255
              THEN IF data[off + 5] >= 128
                   THEN Ok(signed_from_be_bytes(data, off + 4, 4), 8)
                   ELSE Ok(-2147483647 - 1, 8)
              ELSE Ok(-2147483647 - 1, 8)

\* u32 / f32 / u16 / u8 ::deserialize_binary: data[0]..data[w-1] are
\* bounds-checked, the value is from_be_bytes of them (an f32 is its bits).
unsigned_deserialize_binary(data, off, w) ==
    IF off + w > Len(data) THEN Fault(OutOfRange)
    ELSE Ok(unsigned_from_be_bytes(data, off, w), w)

\* i32 / i16 / i8 ::deserialize_binary.
signed_deserialize_binary(data, off, w) ==
    IF off + w > Len(data) THEN Fault(OutOfRange)
    ELSE Ok(signed_from_be_bytes(data, off, w), w)

\* isize::deserialize_binary on a 64-bit target: Target = i64.
isize_deserialize_binary(data, off) == i64_from_bytes(data, off)

\* String::from_utf8: well-formed UTF-8 (1- to 4-byte forms).
RECURSIVE from_utf8_ok(_, _)
from_utf8_ok(s, i) ==
    LET Cont(j) == j <= Len(s) /\ s[j] >= 128 /\ s[j] <= 191
    IN  IF i > Len(s) THEN TRUE
        ELSE IF s[i] < 128 THEN from_utf8_ok(s, i + 1)
        ELSE IF s[i] >= 194 /\ s[i] <= 223
             THEN Cont(i + 1) /\ from_utf8_ok(s, i + 2)
        ELSE IF s[i] >= 224 /\ s[i] <= 239
             THEN /\ Cont(i + 1) /\ Cont(i + 2)
                  /\ (s[i] = 224 => s[i + 1] >= 160)
                  /\ (s[i] = 237 => s[i + 1] <= 159)
                  /\ from_utf8_ok(s, i + 3)
        ELSE IF s[i] >= 240 /\ s[i] <= 244
             THEN /\ Cont(i + 1) /\ Cont(i + 2) /\ Cont(i + 3)
                  /\ (s[i] = 240 => s[i + 1] >= 144)
                  /\ (s[i] = 244 => s[i + 1] <= 143)
                  /\ from_utf8_ok(s, i + 4)
        ELSE FALSE

\* Mutant of String_serialize_binary: the length written is the number of
\* characters (the bytes that are not continuation bytes).
String_serialize_binary_chars(s) ==
    to_be_bytes(Cardinality({i \in 1..Len(s) : s[i] < 128 \/ s[i] > 191}), 8) \o s

\* String::serialize_binary: the byte length as usize, then the bytes.
String_serialize_binary(s) == to_be_bytes(Len(s), 8) \o s

\* String::deserialize_binary: len, then from_utf8(data[8..8+len]).unwrap().
String_deserialize_binary(data, off) ==
    LET l == usize_deserialize_binary(data, off)
    IN  IF ~l.ok THEN l
        ELSE IF l.val > Len(data) - off - 8 THEN Fault(OutOfRange)
        ELSE LET s == SubSeq(data, off + 9, off + 8 + l.val)
             IN  IF from_utf8_ok(s, 1) THEN Ok(s, l.val + 8)
                 ELSE Fault(InvalidUtf8)

(***************************************************************************)
(* Value codec: serialization/src/lib.rs (the same code is in              *)
(* src/src/network/serializer.rs).  A Vector is the sequence of its        *)
(* elements; a Matrix is [rows, cols, data], data holding `cols` column    *)
(* vectors of length `rows` (src/src/math/mod.rs).                         *)
(***************************************************************************)
Vector_new(len) == [i \in 1..len |-> 0]

Matrix_new(rows, columns) ==
    [rows |-> rows, cols |-> columns,
     data |-> [c \in 1..columns |-> Vector_new(rows)]]

\* Matrix::at(col, row), 0-based.
Matrix_at(m, col, row) == m.data[col + 1][row + 1]

\* Matrix::set(col, row, x), 0-based.
Matrix_set(m, col, row, x) ==
    [m EXCEPT !.data[col + 1][row + 1] = x]

\* for i in 0..len { data.extend(self.at(i).to_be_bytes()) }
RECURSIVE Vector_serialize_loop(_, _, _)
Vector_serialize_loop(v, i, data) ==
    IF i >= Len(v) THEN data
    ELSE Vector_serialize_loop(v, i + 1, data \o to_be_bytes(v[i + 1], 8))

Vector_serialize_binary(v) ==
    Vector_serialize_loop(v, 0, to_be_bytes(Len(v), 8))

\* Mutant of Vector_deserialize_loop: the elements are stored back to front.
RECURSIVE Vector_deserialize_loop_reversed(_, _, _, _, _, _)
Vector_deserialize_loop_reversed(data, off, len, i, result, offset) ==
    IF i >= len THEN Ok(result, offset)
    ELSE LET x == f64_from_bytes(data, off + offset)
         IN  IF ~x.ok THEN x
             ELSE Vector_deserialize_loop_reversed(data, off, len, i + 1,
                      [result EXCEPT ![len - i] = x.val], offset + 8)

\* for i in 0..len { result.set(i, f64 at offset); offset += 8 }
\* Mutant of Vector_deserialize_loop: the loop stops at the end of the buffer
\* and returns the vector as far as it was filled.
RECURSIVE Vector_deserialize_loop_partial(_, _, _, _, _, _)
Vector_deserialize_loop_partial(data, off, len, i, result, offset) ==
    IF i >= len THEN Ok(result, offset)
    ELSE LET x == f64_from_bytes(data, off + offset)
         IN  IF ~x.ok THEN Ok(result, offset)
             ELSE Vector_deserialize_loop_partial(data, off, len, i + 1,
                      [result EXCEPT ![i + 1] = x.val], offset + 8)

RECURSIVE Vector_deserialize_loop(_, _, _, _, _, _)
Vector_deserialize_loop(data, off, len, i, result, offset) ==
    IF i >= len THEN Ok(result, offset)
    ELSE LET x == f64_from_bytes(data, off + offset)
         IN  IF ~x.ok THEN x
             ELSE Vector_deserialize_loop(data, off, len, i + 1,
                      [result EXCEPT ![i + 1] = x.val], offset + 8)

\* A declared length above the buffer's own length needs more than the
\* buffer holds: the loop's read past the end faults, whatever Vector::new
\* allocated, so the zero vector is not built for it.
Vector_deserialize_binary(data, off) ==
    LET l == u64_from_bytes(data, off)
    IN  IF ~l.ok THEN l
        ELSE IF l.val > Len(data) THEN Fault(OutOfRange)
        ELSE Vector_deserialize_loop(data, off, l.val, 0, Vector_new(l.val), 8)

\* Mutant of Matrix_serialize_loop: the rows are the outer loop (row-major).
RECURSIVE Matrix_serialize_loop_row_major(_, _, _, _)
Matrix_serialize_loop_row_major(m, i, j, data) ==
    IF i >= m.rows THEN data
    ELSE IF j >= m.cols THEN Matrix_serialize_loop_row_major(m, i + 1, 0, data)
    ELSE Matrix_serialize_loop_row_major(m, i, j + 1,
                               data \o to_be_bytes(Matrix_at(m, j, i), 8))

\* for i in 0..cols { for j in 0..rows { data.extend(self.at(i, j)) } }
RECURSIVE Matrix_serialize_loop(_, _, _, _)
Matrix_serialize_loop(m, i, j, data) ==
    IF i >= m.cols THEN data
    ELSE IF j >= m.rows THEN Matrix_serialize_loop(m, i + 1, 0, data)
    ELSE Matrix_serialize_loop(m, i, j + 1,
                               data \o to_be_bytes(Matrix_at(m, i, j), 8))

Matrix_serialize_binary(m) ==
    Matrix_serialize_loop(m, 0, 0,
                          to_be_bytes(m.rows, 8) \o to_be_bytes(m.cols, 8))

\* for i in 0..cols { for j in 0..rows { result.set(i, j, ..); offset += 8 } }
RECURSIVE Matrix_deserialize_loop(_, _, _, _, _, _)
Matrix_deserialize_loop(data, off, i, j, result, offset) ==
    IF i >= result.cols THEN Ok(result, offset)
    ELSE IF j >= result.rows
         THEN Matrix_deserialize_loop(data, off, i + 1, 0, result, offset)
    ELSE LET x == f64_from_bytes(data, off + offset)
         IN  IF ~x.ok THEN x
             ELSE Matrix_deserialize_loop(data, off, i, j + 1,
                      Matrix_set(result, i, j, x.val), offset + 8)

\* Mutant of Matrix_deserialize_binary: cols is read before rows.
Matrix_deserialize_binary_swapped(data, off) ==
    LET c == u64_from_bytes(data, off)
        r == u64_from_bytes(data, off + 8)
    IN  IF ~r.ok THEN r
        ELSE IF ~c.ok THEN c
        ELSE IF /\ r.val >= 1 /\ c.val >= 1
                /\ (r.val > Len(data) \/ c.val > Len(data))
             THEN Fault(OutOfRange)
        ELSE Matrix_deserialize_loop(data, off, 0, 0,
                                     Matrix_new(r.val, c.val), 16)

\* rows at data[0..], cols at data[8..]. A non-empty shape with more rows or
\* columns than the buffer has bytes faults at a read past the end, whatever
\* Matrix::new allocated, so the zero matrix is not built for it.
Matrix_deserialize_binary(data, off) ==
    LET r == u64_from_bytes(data, off)
        c == u64_from_bytes(data, off + 8)
    IN  IF ~r.ok THEN r
        ELSE IF ~c.ok THEN c
        ELSE IF /\ r.val >= 1 /\ c.val >= 1
                /\ (r.val > Len(data) \/ c.val > Len(data))
             THEN Fault(OutOfRange)
        ELSE Matrix_deserialize_loop(data, off, 0, 0,
                                     Matrix_new(r.val, c.val), 16)

(***************************************************************************)
(* Tags.  Every tag reader of the program is the same code: a u64 length,  *)
(* then String::from_utf8(data[8..8 + len].to_vec()).unwrap().             *)
(***************************************************************************)
\* data.extend((tag.len() as u64).to_be_bytes()); data.extend(tag);
write_tag(tag) == to_be_bytes(Len(tag), 8) \o tag

\* Mutant of deserialize_tag: the bytes are taken as a string unvalidated.
deserialize_tag_unchecked(data, off) ==
    LET l == u64_from_bytes(data, off)
    IN  IF ~l.ok THEN l
        ELSE IF l.val > Len(data) - off - 8 THEN Fault(OutOfRange)
        ELSE Ok(SubSeq(data, off + 9, off + 8 + l.val), l.val + 8)

\* deserialize_tag, and the `let tag = { .. }` block of the derived decoders.
deserialize_tag(data, off) ==
    LET l == u64_from_bytes(data, off)
    IN  IF ~l.ok THEN l
        ELSE IF l.val > Len(data) - off - 8 THEN Fault(OutOfRange)
        ELSE LET s == SubSeq(data, off + 9, off + 8 + l.val)
             IN  IF from_utf8_ok(s, 1) THEN Ok(s, l.val + 8)
                 ELSE Fault(InvalidUtf8)

(***************************************************************************)
(* The types the derive macro is applied to.  Dense and Activation are     *)
(* declared in neural-network/src/network/layer.rs.  TestEnum carries the  *)
(* three variant shapes of the enum derive: a unit variant, a tuple        *)
(* variant with one field and a variant with two named fields.  Unit is a  *)
(* field-less type.  A struct value is a record of its fields; an enum     *)
(* value is [variant, fields], fields in declaration order.                *)
(***************************************************************************)
\* stringify!(#name)
tag(ty) ==
    CASE ty = "Dense" -> StrDense
      [] ty = "Activation" -> StrActivation
      [] ty = "TestEnum" -> StrTestEnum
      [] ty = "Unit" -> StrUnit

\* The fields of a struct, in declaration order.
struct_fields(ty) ==
    CASE ty = "Dense" -> << [name |-> "weights", ty |-> "Matrix"],
                            [name |-> "biases", ty |-> "Vector"] >>
      [] ty = "Unit" -> << >>

\* Self { field: .., .. } from the decoded fields.
struct_new(ty, fields) ==
    CASE ty = "Dense" -> [weights |-> fields[1], biases |-> fields[2]]
      [] ty = "Unit" -> [unit |-> TRUE]

\* The variants of an enum, in declaration order.
enum_variants(ty) ==
    CASE ty = "Activation" ->
            << [name |-> "Sigmoid", str |-> StrSigmoid, fields |-> << >>],
               [name |-> "ReLU", str |-> StrReLU, fields |-> << >>],
               [name |-> "Tanh", str |-> StrTanh, fields |-> << >>] >>
      [] ty = "TestEnum" ->
            << [name |-> "OneTest", str |-> StrOneTest, fields |-> << >>],
               [name |-> "TwoTest", str |-> StrTwoTest, fields |-> <<"usize">>],
               [name |-> "Pair", str |-> StrPair,
                fields |-> <<"usize", "Vector">>] >>

\* The variant of `ty` a value is of (match self).
variant_of(ty, v) ==
    LET vs == enum_variants(ty)
    IN  vs[CHOOSE i \in 1..Len(vs) : vs[i].name = v.variant]

(***************************************************************************)
(* derive_field_serialization: the fields' own codecs, in declaration      *)
(* order, threading the running offset.                                    *)
(***************************************************************************)
\* Mutant of serialize_fields: the fields are written last to first.
RECURSIVE serialize_fields_reversed(_, _, _, _)
serialize_fields_reversed(types, values, i, data) ==
    IF i > Len(types) THEN data
    ELSE serialize_fields_reversed(types, values, i + 1, data)
         \o serialize_binary(types[i], values[i])

\* #( let serialized = <field>.serialize_binary(); data.extend_from_slice )*
RECURSIVE serialize_fields(_, _, _, _)
serialize_fields(types, values, i, data) ==
    IF i > Len(types) THEN data
    ELSE serialize_fields(types, values, i + 1,
                          data \o serialize_binary(types[i], values[i]))

\* #( { let (field, read_bytes) = T::deserialize_binary(&data[offset..]);
\*      offset += read_bytes; field } ),*
RECURSIVE deserialize_fields(_, _, _, _, _, _)
deserialize_fields(types, data, off, i, fields, offset) ==
    IF i > Len(types) THEN Ok(fields, offset)
    ELSE LET r == deserialize_binary(types[i], data, off + offset)
         IN  IF ~r.ok THEN r
             ELSE deserialize_fields(types, data, off, i + 1,
                                     Append(fields, r.val), offset + r.len)

(***************************************************************************)
(* Derived struct: serialize-macro/src/serialize_struct.rs (the same code  *)
(* is derive_struct_serialization of serialize-macro/src/lib.rs).          *)
(***************************************************************************)
derive_struct_serialize(ty, v) ==
    LET fs == struct_fields(ty)
    IN  serialize_fields([i \in 1..Len(fs) |-> fs[i].ty],
                         [i \in 1..Len(fs) |-> v[fs[i].name]],
                         1, write_tag(tag(ty)))

\* Mutant of derive_struct_deserialize: the tag is read and not compared.
derive_struct_deserialize_unchecked(ty, data, off) ==
    LET t == deserialize_tag(data, off)
        fs == struct_fields(ty)
    IN  IF ~t.ok THEN t
        ELSE LET r == deserialize_fields([i \in 1..Len(fs) |-> fs[i].ty],
                                         data, off, 1, << >>, Len(t.val) + 8)
             IN  IF ~r.ok THEN r ELSE Ok(struct_new(ty, r.val), r.len)

derive_struct_deserialize(ty, data, off) ==
    LET t == deserialize_tag(data, off)
        fs == struct_fields(ty)
    IN  IF ~t.ok THEN t
        ELSE IF t.val # tag(ty) THEN Fault(TagMismatch)
        ELSE LET r == deserialize_fields([i \in 1..Len(fs) |-> fs[i].ty],
                                         data, off, 1, << >>, Len(t.val) + 8)
             IN  IF ~r.ok THEN r ELSE Ok(struct_new(ty, r.val), r.len)

(***************************************************************************)
(* Field-less type: serialize-macro/src/serialize_union.rs.                *)
(***************************************************************************)
\* Mutant of derive_union_serialize: a field count of zero follows the tag.
derive_union_serialize_counted(ty) ==
    String_serialize_binary(tag(ty)) \o to_be_bytes(0, 8)

derive_union_serialize(ty) == String_serialize_binary(tag(ty))

derive_union_deserialize(ty, data, off) ==
    LET t == String_deserialize_binary(data, off)
    IN  IF ~t.ok THEN t
        ELSE IF t.val # tag(ty) THEN Fault(TagMismatch)
        ELSE Ok(struct_new(ty, << >>), t.len)

(***************************************************************************)
(* Derived enum, one tag: serialize-macro/src/serialize_enum.rs.           *)
(***************************************************************************)
\* variant_name_str: format!("{}::{}", name, variant.ident)
variant_name_str(ty, variant) == tag(ty) \o StrColons \o variant.str

derive_enum_serialize(ty, v) ==
    LET variant == variant_of(ty, v)
    IN  serialize_fields(variant.fields, v.fields, 1,
                         write_tag(variant_name_str(ty, variant)))

\* Mutant of derive_enum_match: the offset returned is the one read before
\* the fields advanced it.
RECURSIVE derive_enum_match_stale_offset(_, _, _, _, _, _)
derive_enum_match_stale_offset(ty, t, data, off, offset, i) ==
    LET vs == enum_variants(ty)
    IN  IF i > Len(vs) THEN Fault(InvalidVariant)
        ELSE IF t = variant_name_str(ty, vs[i])
             THEN LET r == deserialize_fields(vs[i].fields, data, off, 1,
                                              << >>, offset)
                  IN  IF ~r.ok THEN r
                      ELSE Ok([variant |-> vs[i].name, fields |-> r.val], offset)
        ELSE derive_enum_match_stale_offset(ty, t, data, off, offset, i + 1)

\* Mutant of derive_enum_match: an unmatched tag yields the first variant.
RECURSIVE derive_enum_match_first_variant(_, _, _, _, _, _)
derive_enum_match_first_variant(ty, t, data, off, offset, i) ==
    LET vs == enum_variants(ty)
    IN  IF i > Len(vs)
        THEN Ok([variant |-> vs[1].name, fields |-> << >>], offset)
        ELSE IF t = variant_name_str(ty, vs[i])
             THEN LET r == deserialize_fields(vs[i].fields, data, off, 1,
                                              << >>, offset)
                  IN  IF ~r.ok THEN r
                      ELSE Ok([variant |-> vs[i].name, fields |-> r.val], r.len)
        ELSE derive_enum_match_first_variant(ty, t, data, off, offset, i + 1)

\* match tag.as_str() { #tag_str => .., x => panic!("invalid enum variant") }
RECURSIVE derive_enum_match(_, _, _, _, _, _)
derive_enum_match(ty, t, data, off, offset, i) ==
    LET vs == enum_variants(ty)
    IN  IF i > Len(vs) THEN Fault(InvalidVariant)
        ELSE IF t = variant_name_str(ty, vs[i])
             THEN LET r == deserialize_fields(vs[i].fields, data, off, 1,
                                              << >>, offset)
                  IN  IF ~r.ok THEN r
                      ELSE Ok([variant |-> vs[i].name, fields |-> r.val], r.len)
        ELSE derive_enum_match(ty, t, data, off, offset, i + 1)

derive_enum_deserialize(ty, data, off) ==
    LET t == deserialize_tag(data, off)
    IN  IF ~t.ok THEN t
        ELSE derive_enum_match(ty, t.val, data, off, Len(t.val) + 8, 1)

(***************************************************************************)
(* Derived enum, two tags: derive_enum_serialization of                    *)
(* serialize-macro/src/lib.rs, the derive behind #[derive(Serialize)].     *)
(* The variant tag written is stringify!(::#variant_name) and the string   *)
(* of a decode arm is stringify!(#name::#variant_name); the expansion      *)
(* recorded in serialize-macro/tests/test_macros.rs shows both:            *)
(* ":: OneTest" and "TestEnum :: OneTest".                                 *)
(***************************************************************************)
\* stringify!(::#variant_name)
stringify_variant_tag(variant) == StrColons \o StrSpace \o variant.str

\* stringify!(#name::#variant_name)
stringify_arm(ty, variant) ==
    tag(ty) \o StrSpace \o StrColons \o StrSpace \o variant.str

two_tag_enum_serialize(ty, v) ==
    LET variant == variant_of(ty, v)
    IN  serialize_fields(variant.fields, v.fields, 1,
                         write_tag(tag(ty))
                         \o write_tag(stringify_variant_tag(variant)))

\* match format!("{}{}", tag, variant_name).as_str() { .. }
RECURSIVE two_tag_enum_match(_, _, _, _, _, _)
two_tag_enum_match(ty, t, data, off, offset, i) ==
    LET vs == enum_variants(ty)
    IN  IF i > Len(vs) THEN Fault(InvalidVariant)
        ELSE IF t = stringify_arm(ty, vs[i])
             THEN LET r == deserialize_fields(vs[i].fields, data, off, 1,
                                              << >>, offset)
                  IN  IF ~r.ok THEN r
                      ELSE Ok([variant |-> vs[i].name, fields |-> r.val], r.len)
        ELSE two_tag_enum_match(ty, t, data, off, offset, i + 1)

two_tag_enum_deserialize(ty, data, off) ==
    LET t == deserialize_tag(data, off)
    IN  IF ~t.ok THEN t
        ELSE IF t.val # tag(ty) THEN Fault(TagMismatch)
        ELSE LET n == deserialize_tag(data, off + Len(t.val) + 8)
             IN  IF ~n.ok THEN n
                 ELSE two_tag_enum_match(ty, t.val \o n.val, data, off,
                                         Len(t.val) + 8 + 8 + Len(n.val), 1)

(***************************************************************************)
(* Hand-written layer codecs: src/src/network/serializer.rs.               *)
(***************************************************************************)
\* match self { Sigmoid => 0_u64, ReLU => 1_u64, Tanh => 2_u64 }.to_be_bytes()
net_Activation_serialize_binary(v) ==
    to_be_bytes(CASE v.variant = "Sigmoid" -> 0
                  [] v.variant = "ReLU" -> 1
                  [] v.variant = "Tanh" -> 2, 8)

\* Mutant of net_Activation_deserialize_binary: a code above 2 is taken as
\* the last variant.
net_Activation_deserialize_binary_default(data, off) ==
    LET c == u64_from_bytes(data, off)
    IN  IF ~c.ok THEN c
        ELSE IF c.val = 0 THEN Ok([variant |-> "Sigmoid", fields |-> << >>], 8)
        ELSE IF c.val = 1 THEN Ok([variant |-> "ReLU", fields |-> << >>], 8)
        ELSE Ok([variant |-> "Tanh", fields |-> << >>], 8)

net_Activation_deserialize_binary(data, off) ==
    LET c == u64_from_bytes(data, off)
    IN  IF ~c.ok THEN c
        ELSE IF c.val = 0 THEN Ok([variant |-> "Sigmoid", fields |-> << >>], 8)
        ELSE IF c.val = 1 THEN Ok([variant |-> "ReLU", fields |-> << >>], 8)
        ELSE IF c.val = 2 THEN Ok([variant |-> "Tanh", fields |-> << >>], 8)
        ELSE Fault(InvalidActivation)

net_Dense_serialize_binary(v) ==
    Matrix_serialize_binary(v.weights) \o Vector_serialize_binary(v.biases)

net_Dense_deserialize_binary(data, off) ==
    LET w == Matrix_deserialize_binary(data, off)
    IN  IF ~w.ok THEN w
        ELSE LET b == Vector_deserialize_binary(data, off + w.len)
             IN  IF ~b.ok THEN b
                 ELSE Ok([weights |-> w.val, biases |-> b.val], w.len + b.len)

(***************************************************************************)
(* Network: neural-network/src/lib.rs (crate "") and                       *)
(* src/src/network/serializer.rs (crate "net::"); the two impls are the    *)
(* same code over different layer codecs.  A network is the sequence of    *)
(* its layers, a layer (Box<dyn Layer>) is [kind, layer].                  *)
(***************************************************************************)
\* LayerName::name
name(l) == IF l.kind = "Dense" THEN StrDense ELSE StrActivation

\* Mutant of Network_serialize_loop: the layer's tag is not written.
RECURSIVE Network_serialize_loop_untagged(_, _, _, _)
Network_serialize_loop_untagged(crate, layers, i, data) ==
    IF i > Len(layers) THEN data
    ELSE Network_serialize_loop_untagged(crate, layers, i + 1,
             data \o serialize_binary(crate \o layers[i].kind, layers[i].layer))

\* for layer in &self.layers { tag length, tag, layer.serialize_binary() }
RECURSIVE Network_serialize_loop(_, _, _, _)
Network_serialize_loop(crate, layers, i, data) ==
    IF i > Len(layers) THEN data
    ELSE Network_serialize_loop(crate, layers, i + 1,
             data \o write_tag(name(layers[i]))
                  \o serialize_binary(crate \o layers[i].kind, layers[i].layer))

Network_serialize_binary(crate, layers) ==
    Network_serialize_loop(crate, layers, 1, to_be_bytes(Len(layers), 8))

\* Mutant of deserialize_layers: an unmatched tag is decoded by the first
\* entry of the list.
deserialize_layers_default(crate, t, data, off) ==
    IF t = StrDense
    THEN LET r == deserialize_binary(crate \o "Dense", data, off)
         IN  IF ~r.ok THEN r
             ELSE Ok([kind |-> "Dense", layer |-> r.val], r.len)
    ELSE LET r == deserialize_binary(crate \o "Activation", data, off)
         IN  IF ~r.ok THEN r
             ELSE Ok([kind |-> "Activation", layer |-> r.val], r.len)

\* deserialize_layers! { tag, data, Activation, Dense }
deserialize_layers(crate, t, data, off) ==
    IF t = StrActivation
    THEN LET r == deserialize_binary(crate \o "Activation", data, off)
         IN  IF ~r.ok THEN r
             ELSE Ok([kind |-> "Activation", layer |-> r.val], r.len)
    ELSE IF t = StrDense
    THEN LET r == deserialize_binary(crate \o "Dense", data, off)
         IN  IF ~r.ok THEN r
             ELSE Ok([kind |-> "Dense", layer |-> r.val], r.len)
    ELSE Fault(InvalidLayerTag)

\* for _ in 0..num_layers { tag; offset += tag.len() + 8; layer; offset += len }
RECURSIVE Network_deserialize_loop(_, _, _, _, _, _, _)
Network_deserialize_loop(crate, data, off, num_layers, i, layers, offset) ==
    IF i >= num_layers THEN Ok(layers, offset)
    ELSE LET t == deserialize_tag(data, off + offset)
         IN  IF ~t.ok THEN t
             ELSE LET r == deserialize_layers(crate, t.val, data,
                                              off + offset + Len(t.val) + 8)
                  IN  IF ~r.ok THEN r
                      ELSE Network_deserialize_loop(crate, data, off,
                               num_layers, i + 1, Append(layers, r.val),
                               offset + Len(t.val) + 8 + r.len)

Network_deserialize_binary(crate, data, off) ==
    LET n == u64_from_bytes(data, off)
    IN  IF ~n.ok THEN n
        ELSE Network_deserialize_loop(crate, data, off, n.val, 0, << >>, 8)

(***************************************************************************)
(* The Serialized trait: T::serialize_binary / T::deserialize_binary by    *)
(* type.  "net::" names the impls of src/src/network/serializer.rs.        *)
(***************************************************************************)
serialize_binary(ty, v) ==
    CASE ty \in {"u64", "usize", "f64"} -> to_be_bytes(v, 8)
      [] ty \in {"u32", "f32"} -> to_be_bytes(v, 4)
      [] ty = "u16" -> to_be_bytes(v, 2)
      [] ty = "u8" -> <<v>>
      [] ty \in {"i64", "isize"} -> signed_to_be_bytes(v, 8)
      [] ty = "i32" -> signed_to_be_bytes(v, 4)
      [] ty = "i16" -> signed_to_be_bytes(v, 2)
      [] ty = "i8" -> signed_to_be_bytes(v, 1)
      [] ty = "String" -> String_serialize_binary(v)
      [] ty = "Vector" -> Vector_serialize_binary(v)
      [] ty = "Matrix" -> Matrix_serialize_binary(v)
      [] ty = "Dense" -> derive_struct_serialize(ty, v)
      [] ty = "Unit" -> derive_union_serialize(ty)
      [] ty = "TestEnum" -> derive_enum_serialize(ty, v)
      [] ty = "Activation" -> two_tag_enum_serialize(ty, v)
      [] ty = "net::Dense" -> net_Dense_serialize_binary(v)
      [] ty = "net::Activation" -> net_Activation_serialize_binary(v)
      [] ty = "Network" -> Network_serialize_binary("", v)
      [] ty = "net::Network" -> Network_serialize_binary("net::", v)

deserialize_binary(ty, data, off) ==
    CASE ty = "u64" -> u64_from_bytes(data, off)
      [] ty = "usize" -> usize_deserialize_binary(data, off)
      [] ty = "f64" -> f64_from_bytes(data, off)
      [] ty \in {"u32", "f32"} -> unsigned_deserialize_binary(data, off, 4)
      [] ty = "u16" -> unsigned_deserialize_binary(data, off, 2)
      [] ty = "u8" -> unsigned_deserialize_binary(data, off, 1)
      [] ty = "i64" -> i64_from_bytes(data, off)
      [] ty = "isize" -> isize_deserialize_binary(data, off)
      [] ty = "i32" -> signed_deserialize_binary(data, off, 4)
      [] ty = "i16" -> signed_deserialize_binary(data, off, 2)
      [] ty = "i8" -> signed_deserialize_binary(data, off, 1)
      [] ty = "String" -> String_deserialize_binary(data, off)
      [] ty = "Vector" -> Vector_deserialize_binary(data, off)
      [] ty = "Matrix" -> Matrix_deserialize_binary(data, off)
      [] ty = "Dense" -> derive_struct_deserialize(ty, data, off)
      [] ty = "Unit" -> derive_union_deserialize(ty, data, off)
      [] ty = "TestEnum" -> derive_enum_deserialize(ty, data, off)
      [] ty = "Activation" -> two_tag_enum_deserialize(ty, data, off)
      [] ty = "net::Dense" -> net_Dense_deserialize_binary(data, off)
      [] ty = "net::Activation" -> net_Activation_deserialize_binary(data, off)
      [] ty = "Network" -> Network_deserialize_binary("", data, off)
      [] ty = "net::Network" -> Network_deserialize_binary("net::", data, off)

(***************************************************************************)
(* The values handed to the codecs.                                        *)
(***************************************************************************)
FloatBits == {0, 513, 66051}

\* Element [row = i][col = j] holds seed + i + 10 * j, so every element of a
\* matrix differs from every other and from the 0 of Matrix::new.
PatternVector(len, seed) == [i \in 1..len |-> seed + i - 1]

PatternMatrix(rows, cols, seed) ==
    [rows |-> rows, cols |-> cols,
     data |-> [c \in 1..cols |-> [r \in 1..rows |-> seed + (r - 1) + 10 * (c - 1)]]]

\* Dense::new(input_size, output_size), its random fill replaced by a pattern.
Dense_new(input_size, output_size) ==
    [weights |-> PatternMatrix(output_size, input_size, 66051),
     biases |-> PatternVector(output_size, 301)]

Vectors == UNION {[1..n -> FloatBits] : n \in 0..MaxLen}

Strings == UNION {[1..n -> {72, 105}] : n \in 0..MaxLen} \cup {<<195, 169>>}

Matrices ==
    {PatternMatrix(r, c, seed) : r \in 0..MaxDim, c \in 0..MaxDim,
                                 seed \in {1, 66051}}

Denses ==
    {[weights |-> PatternMatrix(r, c, 66051), biases |-> PatternVector(b, 301)] :
        r \in 0..MaxDim, c \in 0..MaxDim, b \in 0..MaxDim}

Activations ==
    {[variant |-> n, fields |-> << >>] : n \in {"Sigmoid", "ReLU", "Tanh"}}

TestEnums ==
    {[variant |-> "OneTest", fields |-> << >>]}
    \cup {[variant |-> "TwoTest", fields |-> <<n>>] : n \in {0, 258}}
    \cup {[variant |-> "Pair", fields |-> <<n, v>>] : n \in {0, 258}, v \in Vectors}

Layers ==
    {[kind |-> "Activation", layer |-> a] : a \in Activations}
    \cup {[kind |-> "Dense", layer |-> d] :
             d \in {Dense_new(2, 1), Dense_new(2, 2), Dense_new(0, 0)}}

Networks == UNION {[1..n -> Layers] : n \in 0..MaxLayers}

\* The numeric scalar types, their widths in bytes and the values checked:
\* the ends of each range, 0, -1 and values whose bytes all differ.
Unsigned == {"u8", "u16", "u32", "u64", "usize"}
Signed == {"i8", "i16", "i32", "i64", "isize"}
Floats == {"f32", "f64"}
Scalars == Unsigned \cup Signed \cup Floats

size_of(t) ==
    CASE t \in {"u8", "i8"} -> 1
      [] t \in {"u16", "i16"} -> 2
      [] t \in {"u32", "i32", "f32"} -> 4
      [] t \in {"u64", "i64", "usize", "isize", "f64"} -> 8

ScalarValues(t) ==
    CASE t = "u8" -> {0, 1, 127, 128, 255}
      [] t = "u16" -> {0, 258, 32768, 65535}
      [] t \in {"u32", "u64", "usize"} -> {0, 66051, 16909060, 2147483647}
      [] t = "i8" -> {-128, -2, -1, 0, 127}
      [] t = "i16" -> {-32768, -259, -1, 0, 258, 32767}
      [] t \in {"i32", "i64", "isize"} ->
            {-2147483647 - 1, -16909061, -1, 0, 16909060, 2147483647}
      [] t = "f32" -> {0, 1, 1065353216, 2143289344}
      [] t = "f64" -> FloatBits \cup {16909060}

Values(ty) ==
    CASE ty \in Scalars -> ScalarValues(ty)
      [] ty = "String" -> Strings
      [] ty = "Vector" -> Vectors
      [] ty = "Matrix" -> Matrices
      [] ty \in {"Dense", "net::Dense"} -> Denses
      [] ty = "Unit" -> {[unit |-> TRUE]}
      [] ty = "TestEnum" -> TestEnums
      [] ty \in {"Activation", "net::Activation"} -> Activations
      [] ty \in {"Network", "net::Network"} -> Networks

Types ==
    Scalars \cup
    {"String", "Vector", "Matrix", "Dense", "Unit", "TestEnum", "Activation",
     "net::Dense", "net::Activation", "Network", "net::Network"}

(***************************************************************************)
(* Buffers that are not a codec's own output: a strict prefix of it, or    *)
(* the output with one of its length-prefixed tags replaced.               *)
(***************************************************************************)
\* Byte strings that are not UTF-8: a byte that starts no character, a
\* two-byte character cut after its first byte, an overlong form, and
\* "Dense" followed by a stray continuation byte.
InvalidUtf8Tags == { <<255>>, <<195>>, <<192, 128>>, StrDense \o <<128>> }

ForgedTags ==
    { <<85, 110, 107, 110, 111, 119, 110>>,                  \* "Unknown"
      <<100, 101, 110, 115, 101>>,                           \* "dense"
      << >>,                                                 \* ""
      StrTestEnum \o StrColons \o <<85, 110, 107, 110, 111, 119, 110>>,
      StrColons \o StrReLU }                                 \* "::ReLU"
    \cup InvalidUtf8Tags

\* The offsets of the tags of serialize_binary(ty, v) that a forged buffer
\* replaces: the leading tag of a derived type, the variant tag of the
\* two-tag enum, the tag of each layer record of a network, and the
\* length-prefixed bytes of a String.
TagSlots(ty, v) ==
    CASE ty \in {"Dense", "Unit", "TestEnum", "String"} -> {0}
      [] ty = "Activation" -> {0, 8 + Len(tag(ty))}
      [] ty \in {"Network", "net::Network"} ->
            {Len(serialize_binary(ty, SubSeq(v, 1, i - 1))) : i \in 1..Len(v)}
      [] OTHER -> {}

\* `buf` with the length-prefixed tag at `at` replaced by `t`, and what
\* follows the tag kept or dropped.
Forge(buf, at, t, keep) ==
    LET old == from_be_bytes(buf, at)
    IN  SubSeq(buf, 1, at) \o write_tag(t)
        \o (IF keep THEN SubSeq(buf, at + 8 + old + 1, Len(buf)) ELSE << >>)

\* Bytes that follow an encoding in its buffer: single bytes, a word that
\* reads as a length, a whole layer record.
Trailing ==
    { <<0>>, <<255>>, <<0, 0, 0, 0, 0, 0, 0, 1>>,
      write_tag(StrDense) \o Matrix_serialize_binary(Matrix_new(0, 0))
                          \o Vector_serialize_binary(Vector_new(0)) }

\* The values encoded behind another value in one buffer, one or two of
\* each kind of type.
Seconds ==
    { [ty |-> "u16", value |-> 258], [ty |-> "i32", value |-> -2],
      [ty |-> "f64", value |-> 66051],
      [ty |-> "String", value |-> <<72, 105>>],
      [ty |-> "Vector", value |-> PatternVector(2, 513)],
      [ty |-> "Matrix", value |-> PatternMatrix(1, 2, 1)],
      [ty |-> "Dense", value |-> Dense_new(2, 1)],
      [ty |-> "net::Dense", value |-> Dense_new(1, 2)],
      [ty |-> "Unit", value |-> [unit |-> TRUE]],
      [ty |-> "TestEnum", value |-> [variant |-> "TwoTest", fields |-> <<258>>]],
      [ty |-> "Activation", value |-> [variant |-> "ReLU", fields |-> << >>]],
      [ty |-> "net::Activation", value |-> [variant |-> "Tanh", fields |-> << >>]],
      [ty |-> "Network",
       value |-> << [kind |-> "Dense", layer |-> Dense_new(2, 1)] >>],
      [ty |-> "net::Network",
       value |-> << [kind |-> "Dense", layer |-> Dense_new(2, 1)],
                    [kind |-> "Activation",
                     layer |-> [variant |-> "ReLU", fields |-> << >>]] >>] }

\* The offsets of the declared counts of an encoding: the length of a
\* Vector or String, the rows and columns of a Matrix, the layer count of a
\* network.
LengthSlots(ty) ==
    CASE ty \in {"Vector", "String", "Network", "net::Network"} -> {0}
      [] ty = "Matrix" -> {0, 8}
      [] OTHER -> {}

\* Counts in the place of a declared count.
ForgedLengths == 0..(MaxLen + 1)

\* Eight-byte words in the place of an activation code.
ForgedCodes ==
    { to_be_bytes(3, 8), to_be_bytes(258, 8), to_be_bytes(2147483647, 8),
      <<1, 0, 0, 0, 0, 0, 0, 0>>, <<255, 255, 255, 255, 255, 255, 255, 255>> }

(***************************************************************************)
(* The magic-number format of src/src/serializer.rs, used by main.rs.      *)
(* A network is [layers, input_size], a layer [weights, biases,            *)
(* activation] with activation one of "Sigmoid", "Softmax", "ReLU".        *)
(***************************************************************************)
InvalidMagic == "Invalid magic number"

\* static MAGIC_NUMBER: [u8; 4] = 0x12092004_u32.to_be_bytes()
MAGIC_NUMBER == to_be_bytes(302587908, 4)

\* u32_from_bytes(&data[off..off + 4]): the slice panics when it leaves the
\* buffer. A word of 2^31 or more is reported as 2147483647.
u32_from_bytes(data, off) ==
    IF off + 4 > Len(data) THEN Fault(OutOfRange)
    ELSE Ok(IF data[off + 1] >= 128 THEN 2147483647
            ELSE data[off + 1] * 16777216 + data[off + 2] * 65536
                 + data[off + 3] * 256 + data[off + 4], 4)

\* serializer.rs f64_from_bytes(&data[off..off + 8]) (the bit pattern).
serializer_f64_from_bytes(data, off) ==
    IF off + 8 > Len(data) THEN Fault(OutOfRange)
    ELSE Ok(from_be_bytes(data, off), 8)

\* Mutant of serialize_activation: the codes follow the declaration order
\* of the enum (Sigmoid, Softmax, ReLU).
serialize_activation_declared(activation) ==
    CASE activation = "Sigmoid" -> 0
      [] activation = "Softmax" -> 1
      [] activation = "ReLU"    -> 2

serialize_activation(activation) ==
    CASE activation = "Sigmoid" -> 0
      [] activation = "ReLU"    -> 1
      [] activation = "Softmax" -> 2

deserialize_activation(activation) ==
    CASE activation = 0 -> Ok("Sigmoid", 4)
      [] activation = 1 -> Ok("ReLU", 4)
      [] activation = 2 -> Ok("Softmax", 4)
      [] OTHER          -> Fault(InvalidActivation)

\* Layer::random_with_size(neurons, last_layer, activation): the random fill
\* of the i-th layer is replaced by a pattern of pairwise different values.
Layer_random_with_size(neurons, last_layer, activation, i) ==
    [weights    |-> PatternMatrix(neurons, last_layer, 66051 + 100 * i),
     biases     |-> PatternVector(neurons, 301 + 100 * i),
     activation |-> activation]

\* Layer::size()
Layer_size(layer) == Len(layer.biases)

\* Network::new(layer_spec): layer i is built from entries i and i - 1;
\* layer_spec.first().unwrap() panics on an empty spec.
Network_new(layer_spec) ==
    IF Len(layer_spec) = 0 THEN Fault("unwrap on None")
    ELSE Ok([layers |-> [i \in 1..(Len(layer_spec) - 1) |->
                            Layer_random_with_size(layer_spec[i + 1].neurons,
                                                   layer_spec[i].neurons,
                                                   layer_spec[i + 1].activation,
                                                   i)],
             input_size |-> layer_spec[1].neurons], 0)

\* for layer in &network.layers { data.extend(neurons of the layer) }
RECURSIVE serialize_neurons(_, _, _)
serialize_neurons(layers, i, data) ==
    IF i >= Len(layers) THEN data
    ELSE serialize_neurons(layers, i + 1,
             data \o to_be_bytes(Layer_size(layers[i + 1]), 4))

\* for layer in &network.layers { data.extend(code of the activation) }
RECURSIVE serialize_activations(_, _, _)
serialize_activations(layers, i, data) ==
    IF i >= Len(layers) THEN data
    ELSE serialize_activations(layers, i + 1,
             data \o to_be_bytes(serialize_activation(layers[i + 1].activation), 4))

\* serialize_biases(network)
RECURSIVE serialize_biases(_, _, _)
serialize_biases(layers, i, data) ==
    IF i >= Len(layers) THEN data
    ELSE serialize_biases(layers, i + 1,
             Vector_serialize_loop(layers[i + 1].biases, 0, data))

\* for i in 0..weights.cols() { for j in 0..weights.rows() { weights[i][j] } }
RECURSIVE serialize_weights_loop(_, _, _, _)
serialize_weights_loop(weights, i, j, data) ==
    IF i >= weights.cols THEN data
    ELSE IF j >= weights.rows THEN serialize_weights_loop(weights, i + 1, 0, data)
    ELSE serialize_weights_loop(weights, i, j + 1,
             data \o to_be_bytes(Matrix_at(weights, i, j), 8))

\* serialize_weights(network)
RECURSIVE serialize_weights(_, _, _)
serialize_weights(layers, i, data) ==
    IF i >= Len(layers) THEN data
    ELSE serialize_weights(layers, i + 1,
             serialize_weights_loop(layers[i + 1].weights, 0, 0, data))

\* The `data` that serialize(network, path) hands to std::fs::write.
serialize_data(network) ==
    MAGIC_NUMBER
    \o to_be_bytes(Len(network.layers), 4)
    \o to_be_bytes(network.input_size, 4)
    \o serialize_neurons(network.layers, 0, << >>)
    \o serialize_activations(network.layers, 0, << >>)
    \o serialize_biases(network.layers, 0, << >>)
    \o serialize_weights(network.layers, 0, << >>)

\* for _ in 0..num_layers { layer_neurons.push(u32 at offset); offset += 4 }
RECURSIVE deserialize_neurons(_, _, _, _)
deserialize_neurons(data, offset, num_layers, layer_neurons) ==
    IF Len(layer_neurons) >= num_layers THEN Ok(layer_neurons, offset)
    ELSE LET r == u32_from_bytes(data, offset)
         IN  IF ~r.ok THEN r
             ELSE deserialize_neurons(data, offset + 4, num_layers,
                                      Append(layer_neurons, r.val))

\* for _ in 0..num_layers { push(deserialize_activation(u32 at offset)) }
RECURSIVE deserialize_activations(_, _, _, _)
deserialize_activations(data, offset, num_layers, activation_functions) ==
    IF Len(activation_functions) >= num_layers
    THEN Ok(activation_functions, offset)
    ELSE LET r == u32_from_bytes(data, offset)
             a == deserialize_activation(r.val)
         IN  IF ~r.ok THEN r
             ELSE IF ~a.ok THEN a
             ELSE deserialize_activations(data, offset + 4, num_layers,
                                          Append(activation_functions, a.val))

\* for i in 0..layer { layer_biases[i] = f64 at offset; offset += 8 }
RECURSIVE deserialize_biases_loop(_, _, _, _, _)
deserialize_biases_loop(data, off, offset, i, layer_biases) ==
    IF i >= Len(layer_biases) THEN Ok(layer_biases, offset)
    ELSE LET r == serializer_f64_from_bytes(data, off + offset)
         IN  IF ~r.ok THEN r
             ELSE deserialize_biases_loop(data, off, offset + 8, i + 1,
                      [layer_biases EXCEPT ![i + 1] = r.val])

\* deserialize_biases(&data[off..], layers), from the k-th layer on.
RECURSIVE deserialize_biases(_, _, _, _, _, _)
deserialize_biases(data, off, layers, k, biases, offset) ==
    IF k >= Len(layers) THEN Ok(biases, offset)
    ELSE LET r == deserialize_biases_loop(data, off, offset, 0,
                                          Vector_new(layers[k + 1]))
         IN  IF ~r.ok THEN r
             ELSE deserialize_biases(data, off, layers, k + 1,
                                     Append(biases, r.val), r.len)

\* for j in 0..last_layer { for i in 0..layer { layer_weights[j][i] = f64 } }
RECURSIVE deserialize_weights_loop(_, _, _, _, _, _)
deserialize_weights_loop(data, off, offset, j, i, layer_weights) ==
    IF j >= layer_weights.cols THEN Ok(layer_weights, offset)
    ELSE IF i >= layer_weights.rows
    THEN deserialize_weights_loop(data, off, offset, j + 1, 0, layer_weights)
    ELSE LET r == serializer_f64_from_bytes(data, off + offset)
         IN  IF ~r.ok THEN r
             ELSE deserialize_weights_loop(data, off, offset + 8, j, i + 1,
                      Matrix_set(layer_weights, j, i, r.val))

\* deserialize_weights(&data[off..], input_neurons, layers), from the k-th
\* layer on; last_layer is the size of the layer before.
RECURSIVE deserialize_weights(_, _, _, _, _, _, _)
deserialize_weights(data, off, last_layer, layers, k, weights, offset) ==
    IF k >= Len(layers) THEN Ok(weights, offset)
    ELSE LET r == deserialize_weights_loop(data, off, offset, 0, 0,
                      Matrix_new(layers[k + 1], last_layer))
         IN  IF ~r.ok THEN r
             ELSE deserialize_weights(data, off, layers[k + 1], layers, k + 1,
                                      Append(weights, r.val), r.len)

\* F(x) for the value of x: the `let` of a result that the statements
\* behind it use several times.
let_in(x, F(_)) == CHOOSE y \in {F(v) : v \in {x}} : TRUE

\* Layer::new(weights[i], biases[i], activation_functions[i]) for every
\* layer, and the Network of them.
deserialize_layers_of(num_layers, input_neurons, activation_functions, biases, weights) ==
    Ok([layers |-> [i \in 1..num_layers |->
                       [weights    |-> weights[i],
                        biases     |-> biases[i],
                        activation |-> activation_functions[i]]],
        input_size |-> input_neurons], 0)

\* The body of deserialize(path) behind the assert_eq! on the magic number.
deserialize_body(bytes) ==
    let_in(u32_from_bytes(bytes, 4), LAMBDA num_layers :
    let_in(u32_from_bytes(bytes, 8), LAMBDA input_neurons :
        IF ~num_layers.ok THEN num_layers
        ELSE IF ~input_neurons.ok THEN input_neurons
        ELSE
    let_in(deserialize_neurons(bytes, 12, num_layers.val, << >>),
           LAMBDA layer_neurons :
        IF ~layer_neurons.ok THEN layer_neurons
        ELSE
    let_in(deserialize_activations(bytes, layer_neurons.len, num_layers.val, << >>),
           LAMBDA activation_functions :
        IF ~activation_functions.ok THEN activation_functions
        ELSE
    let_in(deserialize_biases(bytes, activation_functions.len,
                              layer_neurons.val, 0, << >>, 0),
           LAMBDA biases :
        IF ~biases.ok THEN biases
        ELSE
    let_in(deserialize_weights(bytes, activation_functions.len + biases.len,
                               input_neurons.val, layer_neurons.val, 0, << >>, 0),
           LAMBDA weights :
        IF ~weights.ok THEN weights
        ELSE deserialize_layers_of(num_layers.val, input_neurons.val,
                                   activation_functions.val, biases.val,
                                   weights.val)))))))

\* Mutant of deserialize_data: the magic number is not looked at.
deserialize_data_unchecked(data) ==
    IF Len(data) < 4 THEN Fault(OutOfRange)
    ELSE deserialize_body(data)

\* deserialize(path) on the bytes read: &data[0..4] panics on a file
\* shorter than four bytes, assert_eq! on any other magic number.
deserialize_data(data) ==
    IF Len(data) < 4 THEN Fault(OutOfRange)
    ELSE IF SubSeq(data, 1, 4) # MAGIC_NUMBER THEN Fault(InvalidMagic)
    ELSE deserialize_body(data)

\* The entries of a layer spec: every activation, layers of 0, 1 and 2
\* neurons.
LayerSpecEntries ==
    { [neurons |-> 0, activation |-> "Sigmoid"],
      [neurons |-> 1, activation |-> "Sigmoid"],
      [neurons |-> 1, activation |-> "ReLU"],
      [neurons |-> 2, activation |-> "ReLU"],
      [neurons |-> 2, activation |-> "Softmax"] }

\* Layer specs of at least one entry (MaxLayers layers at most).
LayerSpecs == UNION {[1..n -> LayerSpecEntries] : n \in 1..(MaxLayers + 1)}

\* Four bytes in the place of the magic number: zeros, the magic number in
\* little-endian order, and the magic number with its last byte changed.
ForgedMagics == { <<0, 0, 0, 0>>, <<4, 32, 9, 18>>, <<18, 9, 32, 5>> }

\* Four-byte words in the place of an activation code.
ForgedActivations == { to_be_bytes(3, 4), to_be_bytes(258, 4), <<255, 255, 255, 255>> }

NoForgery == [magic |-> FALSE, code |-> FALSE, cut |-> FALSE]

(***************************************************************************)
(* Training: train_parallel and calc_gradients of                          *)
(* neural-network/src/lib.rs (the same code as src/src/network/mod.rs and, *)
(* under the name calc_deltas, src/src/network.rs).  Numbers are exact:    *)
(* a learning rate is a fraction [num, den], and every gradient of the     *)
(* model is a multiple of GradientUnit, which all the divisions of the     *)
(* code divide without remainder.  The network has one layer; the          *)
(* gradients of a sample, back_propagate(input, target), are a function of *)
(* the sample while the network is borrowed unchanged, so a sample is      *)
(* given by its gradients [weights, biases].                               *)
(***************************************************************************)
MaxSamples == 3
MaxThreads == 3

RECURSIVE Factorial(_)
Factorial(n) == IF n <= 1 THEN 1 ELSE n * Factorial(n - 1)

GradientUnit == (2 * Factorial(MaxSamples)) * (2 * Factorial(MaxThreads))

LearningRates == { [num |-> 1, den |-> 2], [num |-> 1, den |-> 1] }

\* x * (learning_rate / n)
times_rate_over(x, learning_rate, n) ==
    (x * learning_rate.num) \div (learning_rate.den * n)

\* back_propagate(training_data.input, training_data.target): one Gradient
\* per layer.
back_propagate(training_data) ==
    << [weights |-> training_data.weights, biases |-> training_data.biases] >>

\* One turn of the loop of calc_gradients: the first sample's gradients are
\* taken as they are, those of every later sample are multiplied by
\* learning_rate / data_len and added.
calc_gradients_step(deltas, training_data, learning_rate, data_len) ==
    LET new_deltas == back_propagate(training_data)
    IN  IF deltas = << >> THEN new_deltas
        ELSE [l \in 1..Len(deltas) |->
                 [weights |-> deltas[l].weights
                                + times_rate_over(new_deltas[l].weights,
                                                  learning_rate, data_len),
                  biases  |-> deltas[l].biases
                                + times_rate_over(new_deltas[l].biases,
                                                  learning_rate, data_len)]]

\* layer.update(gradient, rate): weights -= gradient.weights * rate, with
\* rate = learning_rate / thread_count.
Layer_update(layer, gradient, learning_rate, thread_count) ==
    [weights |-> layer.weights
                   - times_rate_over(gradient.weights, learning_rate, thread_count),
     biases  |-> layer.biases
                   - times_rate_over(gradient.biases, learning_rate, thread_count)]

\* The samples of the model: two different gradients.
Samples ==
    { [weights |-> GradientUnit, biases |-> 2 * GradientUnit],
      [weights |-> 3 * GradientUnit, biases |-> -GradientUnit] }

Batches == UNION {[1..n -> Samples] : n \in 0..MaxSamples}

(***************************************************************************)
(* src/src/mnist.rs: impl From<&Dataset> for Vec<TrainingData>.            *)
(* A dataset is [image_size, data, labels]; an input element is the pair   *)
(* <<byte, 255>> for the quotient byte / 255.0; the elements of a target   *)
(* are 0 for 0.0 and 1 for 1.0.                                            *)
(***************************************************************************)
\* usize::saturating_sub
saturating_sub(a, b) == IF a >= b THEN a - b ELSE 0

\* Vector::set(index, x), 0-based: the index is bounds-checked.
Vector_set(v, index, x) ==
    IF index >= Len(v) THEN Fault(OutOfRange)
    ELSE Ok([v EXCEPT ![index + 1] = x], 0)

\* The TrainingData of sample i (0-based) of the dataset.
training_data_of(dataset, i) ==
    LET image_size == dataset.image_size[1] * dataset.image_size[2]
        label      == dataset.labels[i + 1]
        offset     == i * image_size
        input      == [j \in 1..image_size |-> <<dataset.data[offset + j], 255>>]
        target     == Vector_set(Vector_new(10), saturating_sub(label, 1), 1)
    IN  IF ~target.ok THEN target
        ELSE Ok([input |-> input, target |-> target.val], 0)

\* for i in 0..dataset.labels.len() { .. result.push(..) }
RECURSIVE from_dataset_loop(_, _, _)
from_dataset_loop(dataset, i, acc) ==
    IF i >= Len(dataset.labels) THEN Ok(acc, 0)
    ELSE LET t == training_data_of(dataset, i)
         IN  IF ~t.ok THEN t
             ELSE from_dataset_loop(dataset, i + 1, Append(acc, t.val))

\* Vec::<TrainingData>::from(&dataset)
from_dataset(dataset) == from_dataset_loop(dataset, 0, << >>)

\* The labels of MNIST.
Labels == 0..9

\* Datasets of up to MaxSamples images of 1 x 2 pixels; the pixels of image
\* i are 51 * i and 255 - 51 * i.
Datasets ==
    { [image_size |-> <<1, 2>>,
       data       |-> [j \in 1..(2 * Len(labels)) |->
                          IF j % 2 = 1 THEN 51 * ((j + 1) \div 2)
                          ELSE 255 - 51 * (j \div 2)],
       labels     |-> labels] :
      labels \in UNION {[1..n -> Labels] : n \in 0..MaxSamples} }

(***************************************************************************)
(* src/src/main.rs: the training loop of main and the Ctrl-C handler.      *)
(***************************************************************************)
BATCHES == 20

\* The epoch counter `for i in 0..` is only displayed; the model counts it
\* up to MaxEpochs and holds it there.
MaxEpochs == 2

\* Mutant of exit_checked: the exit flag is only looked at behind the last
\* batch of an epoch.
exit_checked_last_batch(i) == i + 1 = BATCHES

\* The `if *exit.lock().unwrap()` stands behind train_parallel in every turn
\* i of the batch loop.
exit_checked(i) == i \in 0..(BATCHES - 1)

\* The layouts of the networks main trains (load_network builds
\* Network::new(network_layout) or loads a file of such a network): one
\* layer of one neuron over one or two inputs.
network_layouts ==
    { << [neurons |-> 1, activation |-> "ReLU"],
         [neurons |-> 1, activation |-> "Sigmoid"] >>,
      << [neurons |-> 2, activation |-> "ReLU"],
         [neurons |-> 1, activation |-> "Softmax"] >> }

\* The network after a train_parallel call that left w as the first weight
\* of the first layer.
trained(network, w) ==
    [network EXCEPT !.layers[1].weights = Matrix_set(@, 0, 0, w)]

(***************************************************************************)
(* The state machine: a value is serialized, the buffer is handed to       *)
(* deserialize_binary as it is, cut short, with a forged tag or code word, *)
(* with bytes behind it, or with the encoding of a second value behind it, *)
(* which is then decoded at the offset the first decode returned.  A       *)
(* network is written to a path and read back from it.                     *)
(***************************************************************************)
VARIABLES ty, value, data, tamper, result, pc, second, rest, file,
          threads, train, prog

vars == <<ty, value, data, tamper, result, pc, second, rest, file,
          threads, train, prog>>

Untampered == [kind |-> "none", at |-> 0, tag |-> << >>, keep |-> TRUE]

NoSecond == [ty |-> "none", value |-> << >>]

NoFile == [exists |-> FALSE, bytes |-> << >>]

\* The worker threads, the training call and the main program are not
\* running while the codec alone is exercised.
NotRunning == [pc |-> "unused"]

Init ==
    /\ ty \in Types
    /\ value \in Values(ty)
    /\ data = << >>
    /\ tamper = Untampered
    /\ result = Fault("none")
    /\ pc = "new"
    /\ second = NoSecond
    /\ rest = Fault("none")
    /\ file = NoFile
    /\ threads = NotRunning
    /\ train = NotRunning
    /\ prog = NotRunning

Serialize ==
    /\ pc = "new"
    /\ data' = serialize_binary(ty, value)
    /\ pc' = "serialized"
    /\ UNCHANGED <<ty, value, tamper, result, second, rest, file, threads, train, prog>>

Truncate ==
    /\ pc = "serialized"
    /\ \E n \in 0..(Len(data) - 1) :
          /\ data' = SubSeq(data, 1, n)
          /\ tamper' = [kind |-> "truncated", at |-> n, tag |-> << >>,
                        keep |-> FALSE]
    /\ pc' = "tampered"
    /\ UNCHANGED <<ty, value, result, second, rest, file, threads, train, prog>>

ForgeTag ==
    /\ pc = "serialized"
    /\ \E at \in TagSlots(ty, value), t \in ForgedTags, keep \in BOOLEAN :
          /\ data' = Forge(data, at, t, keep)
          /\ tamper' = [kind |-> "forged", at |-> at, tag |-> t, keep |-> keep]
    /\ pc' = "tampered"
    /\ UNCHANGED <<ty, value, result, second, rest, file, threads, train, prog>>

ForgeCode ==
    /\ pc = "serialized"
    /\ ty = "net::Activation"
    /\ \E w \in ForgedCodes :
          /\ data' = w
          /\ tamper' = [kind |-> "code", at |-> 0, tag |-> w, keep |-> FALSE]
    /\ pc' = "tampered"
    /\ UNCHANGED <<ty, value, result, second, rest, file, threads, train, prog>>

\* A declared count of the buffer is replaced by another one.
ForgeLength ==
    /\ pc = "serialized"
    /\ \E at \in LengthSlots(ty), n \in ForgedLengths :
          /\ n # from_be_bytes(data, at)
          /\ data' = SubSeq(data, 1, at) \o to_be_bytes(n, 8)
                         \o SubSeq(data, at + 9, Len(data))
          /\ tamper' = [kind |-> "length", at |-> at, tag |-> to_be_bytes(n, 8),
                        keep |-> TRUE]
    /\ pc' = "tampered"
    /\ UNCHANGED <<ty, value, result, second, rest, file, threads, train, prog>>

Extend ==
    /\ pc = "serialized"
    /\ \E t \in Trailing :
          /\ data' = data \o t
          /\ tamper' = [kind |-> "extended", at |-> Len(data), tag |-> t,
                        keep |-> TRUE]
    /\ pc' = "tampered"
    /\ UNCHANGED <<ty, value, result, second, rest, file, threads, train, prog>>

Concat ==
    /\ pc = "serialized"
    /\ \E b \in Seconds :
          /\ data' = data \o serialize_binary(b.ty, b.value)
          /\ second' = b
    /\ tamper' = [kind |-> "concat", at |-> Len(data), tag |-> << >>,
                  keep |-> TRUE]
    /\ pc' = "tampered"
    /\ UNCHANGED <<ty, value, result, rest, file, threads, train, prog>>

Deserialize ==
    /\ pc \in {"serialized", "tampered"}
    /\ result' = deserialize_binary(ty, data, 0)
    /\ pc' = "deserialized"
    /\ UNCHANGED <<ty, value, data, tamper, second, rest, file, threads, train, prog>>

\* let (field, read_bytes) = T::deserialize_binary(&data[offset..]) with
\* offset the length the decode before it returned.
DeserializeRest ==
    /\ pc = "deserialized"
    /\ tamper.kind = "concat"
    /\ result.ok
    /\ rest' = deserialize_binary(second.ty, data, result.len)
    /\ pc' = "rest"
    /\ UNCHANGED <<ty, value, data, tamper, result, second, file, threads, train, prog>>

Next ==
    \/ Serialize
    \/ Truncate
    \/ ForgeTag
    \/ ForgeCode
    \/ ForgeLength
    \/ Extend
    \/ Concat
    \/ Deserialize
    \/ DeserializeRest

Spec == Init /\ [][Next]_vars

(***************************************************************************)
(* Files: serialize_network / deserialize_network of                       *)
(* neural-network/src/lib.rs (ty = "Network") and of                       *)
(* src/src/network/serializer.rs (ty = "net::Network"), on one path.       *)
(* `value` is the network last passed to serialize_network, `file` the     *)
(* content of the path, `result` what the last call returned.              *)
(***************************************************************************)
NotFound == "No such file or directory"

\* Mutant of fs_write: the file is opened without truncation, so the bytes
\* of a longer earlier content stay behind the new ones.
fs_write_no_truncate(old, bytes) ==
    [exists |-> TRUE,
     bytes |-> bytes \o SubSeq(old.bytes, Len(bytes) + 1, Len(old.bytes))]

\* std::fs::write(path, contents): creates the file, or replaces all of its
\* content.
fs_write(old, bytes) == [exists |-> TRUE, bytes |-> bytes]

FileInit ==
    /\ ty \in {"Network", "net::Network"}
    /\ value = << >>
    /\ data = << >>
    /\ tamper = Untampered
    /\ result = Fault("none")
    /\ pc = "idle"
    /\ second = NoSecond
    /\ rest = Fault("none")
    /\ file = NoFile
    /\ threads = NotRunning
    /\ train = NotRunning
    /\ prog = NotRunning

\* The networks written to the path: layer lists over one Activation and
\* three shapes of Dense.
SavedLayers ==
    {[kind |-> "Activation", layer |-> [variant |-> "ReLU", fields |-> << >>]]}
    \cup {[kind |-> "Dense", layer |-> d] :
             d \in {Dense_new(2, 1), Dense_new(2, 2), Dense_new(0, 0)}}

SavedNetworks == UNION {[1..n -> SavedLayers] : n \in 0..MaxLayers}

\* serialize_network(&network, path): Ok(()) is returned.
serialize_network ==
    /\ \E network \in SavedNetworks :
          /\ value' = network
          /\ file' = fs_write(file, serialize_binary(ty, network))
    /\ tamper' = Untampered
    /\ result' = Ok(<< >>, 0)
    /\ pc' = "saved"
    /\ UNCHANGED <<ty, data, second, rest, threads, train, prog>>

\* Bytes are written behind the content of the file from outside.
append_to_file ==
    /\ file.exists
    /\ tamper.kind = "none"
    /\ \E t \in Trailing :
          /\ file' = [file EXCEPT !.bytes = @ \o t]
          /\ tamper' = [kind |-> "extended", at |-> Len(file.bytes), tag |-> t,
                        keep |-> TRUE]
    /\ pc' = "appended"
    /\ UNCHANGED <<ty, value, data, result, second, rest, threads, train, prog>>

\* deserialize_network(path): std::fs::read(path)? returns the error of a
\* missing file; the network of Network::deserialize_binary(&data).0 is
\* returned, the consumed length dropped, and `data` is freed.
deserialize_network ==
    /\ result' = IF ~file.exists THEN Fault(NotFound)
                 ELSE LET r == deserialize_binary(ty, file.bytes, 0)
                      IN  IF r.ok THEN Ok(r.val, 0) ELSE r
    /\ pc' = "loaded"
    /\ UNCHANGED <<ty, value, data, tamper, second, rest, file, threads, train, prog>>

FileNext ==
    \/ serialize_network
    \/ append_to_file
    \/ deserialize_network

FileSpec == FileInit /\ [][FileNext]_vars

(***************************************************************************)
(* The file of src/src/serializer.rs: serialize and deserialize on one     *)
(* path, the file forged or cut short from outside in between.             *)
(***************************************************************************)
LegacyInit ==
    /\ ty = "legacy"
    /\ value = << >>
    /\ data = << >>
    /\ tamper = NoForgery
    /\ result = Fault("none")
    /\ pc = "idle"
    /\ second = NoSecond
    /\ rest = Fault("none")
    /\ file = NoFile
    /\ threads = NotRunning
    /\ train = NotRunning
    /\ prog = NotRunning

\* serialize(&network, path) for a network of Network::new, on a path that
\* holds no file yet: Ok(()) is returned.
serialize ==
    /\ ~file.exists
    /\ \E layer_spec \in LayerSpecs :
          LET network == Network_new(layer_spec).val
          IN  /\ value' = network
              /\ file' = fs_write(file, serialize_data(network))
    /\ tamper' = NoForgery
    /\ result' = Ok(<< >>, 0)
    /\ pc' = "saved"
    /\ UNCHANGED <<ty, data, second, rest, threads, train, prog>>

\* The first four bytes of the file are replaced from outside.
forge_magic ==
    /\ pc \in {"saved", "forged"}
    /\ ~tamper.magic
    /\ \E m \in ForgedMagics :
          file' = [file EXCEPT !.bytes = m \o SubSeq(@, 5, Len(@))]
    /\ tamper' = [tamper EXCEPT !.magic = TRUE]
    /\ pc' = "forged"
    /\ UNCHANGED <<ty, value, data, result, second, rest, threads, train, prog>>

\* The activation code of one layer is replaced from outside.
forge_activation ==
    /\ pc \in {"saved", "forged"}
    /\ ~tamper.code /\ ~tamper.cut
    /\ \E i \in 1..Len(value.layers), c \in ForgedActivations :
          LET at == 12 + 4 * Len(value.layers) + 4 * (i - 1)
          IN  file' = [file EXCEPT !.bytes =
                          SubSeq(@, 1, at) \o c \o SubSeq(@, at + 5, Len(@))]
    /\ tamper' = [tamper EXCEPT !.code = TRUE]
    /\ pc' = "forged"
    /\ UNCHANGED <<ty, value, data, result, second, rest, threads, train, prog>>

\* The file is cut short from outside: inside the magic number, behind it,
\* inside the header, or by its last byte.
truncate_file ==
    /\ pc \in {"saved", "forged"}
    /\ ~tamper.cut
    /\ \E n \in {3, 4, 11, Len(file.bytes) - 1} :
          /\ n < Len(file.bytes)
          /\ file' = [file EXCEPT !.bytes = SubSeq(@, 1, n)]
    /\ tamper' = [tamper EXCEPT !.cut = TRUE]
    /\ pc' = "forged"
    /\ UNCHANGED <<ty, value, data, result, second, rest, threads, train, prog>>

\* deserialize(path): std::fs::read(path)? returns the error of a missing
\* file.
deserialize ==
    /\ pc \in {"idle", "saved", "forged"}
    /\ result' = IF ~file.exists THEN Fault(NotFound)
                 ELSE deserialize_data(file.bytes)
    /\ pc' = "loaded"
    /\ UNCHANGED <<ty, value, data, tamper, second, rest, file, threads, train, prog>>

LegacyNext ==
    \/ serialize
    \/ forge_magic
    \/ forge_activation
    \/ truncate_file
    \/ deserialize

LegacySpec == LegacyInit /\ [][LegacyNext]_vars

(***************************************************************************)
(* Two threads, each serializing a value of its own and decoding the       *)
(* buffer it got (serialization/src/lib.rs, trait Serialized).             *)
(* serialize_binary(&self) builds its output in a Vec local to the call,   *)
(* one extend after the other; deserialize_binary(&[u8]) only reads.       *)
(* `threads` holds per thread its position, the value it owns, the Vec of  *)
(* its call, and what its decode returned.                                 *)
(***************************************************************************)
ThreadIds == {1, 2}

\* Mutant of written_by: the calls of all threads build their output in one
\* buffer shared between them.
written_by_all(t) == ThreadIds

\* The buffers that the extends of thread t's call write: `let mut data =
\* vec![]` is local to the call.
written_by(t) == {t}

\* The bytes of one data.extend(..) of a call that has written n bytes of
\* the encoding enc: eight bytes at most.
next_extend(enc, n) ==
    SubSeq(enc, n + 1, IF n + 8 > Len(enc) THEN Len(enc) ELSE n + 8)

ThreadInit ==
    /\ ty = "threads"
    /\ value = << >>
    /\ data = << >>
    /\ tamper = Untampered
    /\ result = Fault("none")
    /\ pc = "threads"
    /\ second = NoSecond
    /\ rest = Fault("none")
    /\ file = NoFile
    /\ \E input \in [ThreadIds -> Seconds] :
          threads = [pc      |-> [t \in ThreadIds |-> "start"],
                     input   |-> input,
                     value   |-> [t \in ThreadIds |-> input[t].value],
                     written |-> [t \in ThreadIds |-> 0],
                     buffers |-> [t \in ThreadIds |-> << >>],
                     result  |-> [t \in ThreadIds |-> Fault("none")],
                     overlap |-> FALSE]
    /\ train = NotRunning
    /\ prog = NotRunning

\* let mut data = vec![];
begin_serialize(t) ==
    /\ threads.pc[t] = "start"
    /\ threads' = [threads EXCEPT
          !.pc[t] = "serializing",
          !.buffers = [u \in ThreadIds |->
                          IF u \in written_by(t) THEN << >> ELSE @[u]]]
    /\ UNCHANGED <<ty, value, data, tamper, result, pc, second, rest, file, train, prog>>

\* data.extend(..): the next bytes of the encoding of the thread's value.
\* `overlap` records that the other thread is in the middle of its own call.
extend(t) ==
    /\ threads.pc[t] = "serializing"
    /\ LET enc   == serialize_binary(threads.input[t].ty, threads.value[t])
           chunk == next_extend(enc, threads.written[t])
       IN  /\ threads.written[t] < Len(enc)
           /\ threads' = [threads EXCEPT
                 !.written[t] = @ + Len(chunk),
                 !.buffers = [u \in ThreadIds |->
                                 IF u \in written_by(t) THEN @[u] \o chunk
                                 ELSE @[u]],
                 !.overlap = @ \/ \E u \in ThreadIds \ {t} :
                                     /\ threads.pc[u] = "serializing"
                                     /\ threads.written[u] > 0]
    /\ UNCHANGED <<ty, value, data, tamper, result, pc, second, rest, file, train, prog>>

\* The call returns `data`.
end_serialize(t) ==
    /\ threads.pc[t] = "serializing"
    /\ threads.written[t] =
           Len(serialize_binary(threads.input[t].ty, threads.value[t]))
    /\ threads' = [threads EXCEPT !.pc[t] = "serialized"]
    /\ UNCHANGED <<ty, value, data, tamper, result, pc, second, rest, file, train, prog>>

\* T::deserialize_binary(&data) on the thread's own buffer.
deserialize_own(t) ==
    /\ threads.pc[t] = "serialized"
    /\ threads' = [threads EXCEPT
          !.pc[t] = "done",
          !.result[t] = deserialize_binary(threads.input[t].ty,
                                           threads.buffers[t], 0)]
    /\ UNCHANGED <<ty, value, data, tamper, result, pc, second, rest, file, train, prog>>

ThreadNext ==
    \E t \in ThreadIds :
        \/ begin_serialize(t)
        \/ extend(t)
        \/ end_serialize(t)
        \/ deserialize_own(t)

ThreadSpec == ThreadInit /\ [][ThreadNext]_vars

(***************************************************************************)
(* One call of train_parallel(data, learning_rate, thread_count).          *)
(* `train` holds the arguments, block_size, the workers spawned so far     *)
(* (each with the 0-based indices of `data` it has read and the deltas of  *)
(* its calc_gradients), thread_deltas, and the layer of the network.       *)
(***************************************************************************)
InitialLayer == [weights |-> 0, biases |-> 0]

TrainInit ==
    /\ ty = "train"
    /\ value = << >>
    /\ data = << >>
    /\ tamper = Untampered
    /\ result = Fault("none")
    /\ pc = "train"
    /\ second = NoSecond
    /\ rest = Fault("none")
    /\ file = NoFile
    /\ threads = NotRunning
    /\ \E batch \in Batches, learning_rate \in LearningRates,
          thread_count \in 1..MaxThreads :
          train = [pc            |-> "spawning",
                   data          |-> batch,
                   learning_rate |-> learning_rate,
                   thread_count  |-> thread_count,
                   block_size    |-> Len(batch) \div thread_count,
                   workers       |-> << >>,
                   thread_deltas |-> << >>,
                   applied       |-> 0,
                   layer         |-> InitialLayer]
    /\ prog = NotRunning

\* threads.push(s.spawn(..)) for the next i in 0..thread_count; the loop
\* ends after thread_count spawns.
spawn ==
    /\ train.pc = "spawning"
    /\ LET i == Len(train.workers)
       IN  train' = [train EXCEPT
               !.workers = Append(@, [pc     |-> "running",
                                      start  |-> i * train.block_size,
                                      end    |-> i * train.block_size + train.block_size,
                                      read   |-> {},
                                      deltas |-> << >>]),
               !.pc = IF i + 1 = train.thread_count THEN "joining" ELSE @]
    /\ UNCHANGED <<ty, value, data, tamper, result, pc, second, rest, file, threads, prog>>

\* Worker w (1-based) runs one turn of calc_gradients(&data[start..end],
\* learning_rate), or returns at the end of its slice.
worker_step(w) ==
    /\ w \in 1..Len(train.workers)
    /\ train.workers[w].pc = "running"
    /\ LET me == train.workers[w]
           k  == me.start + Cardinality(me.read)
       IN  IF k < me.end
           THEN train' = [train EXCEPT
                    !.workers[w].read = @ \cup {k},
                    !.workers[w].deltas =
                        calc_gradients_step(@, train.data[k + 1],
                                            train.learning_rate,
                                            me.end - me.start)]
           ELSE train' = [train EXCEPT !.workers[w].pc = "finished"]
    /\ UNCHANGED <<ty, value, data, tamper, result, pc, second, rest, file, threads, prog>>

\* thread_deltas.push(thread.join().unwrap()) for the next thread, which has
\* returned; the scope ends after the last join.
join ==
    /\ train.pc = "joining"
    /\ LET w == Len(train.thread_deltas) + 1
       IN  /\ train.workers[w].pc = "finished"
           /\ train' = [train EXCEPT
                  !.workers[w].pc = "joined",
                  !.thread_deltas = Append(@, train.workers[w].deltas),
                  !.pc = IF w = train.thread_count THEN "updating" ELSE @]
    /\ UNCHANGED <<ty, value, data, tamper, result, pc, second, rest, file, threads, prog>>

\* for gradients in thread_deltas { for (layer, gradient) in
\* layers.zip(gradients) { layer.update(..) } }: the next thread's deltas;
\* the call returns after the last.
update ==
    /\ train.pc = "updating"
    /\ LET gradients == train.thread_deltas[train.applied + 1]
       IN  train' = [train EXCEPT
               !.layer = IF gradients = << >> THEN @
                         ELSE Layer_update(@, gradients[1], train.learning_rate,
                                           train.thread_count),
               !.applied = @ + 1,
               !.pc = IF train.applied + 1 = train.thread_count
                      THEN "returned" ELSE @]
    /\ UNCHANGED <<ty, value, data, tamper, result, pc, second, rest, file, threads, prog>>

TrainNext ==
    \/ spawn
    \/ \E w \in 1..MaxThreads : worker_step(w)
    \/ join
    \/ update

TrainSpec == TrainInit /\ [][TrainNext]_vars

(***************************************************************************)
(* The conversion of a dataset into training data (main.rs:                *)
(* Vec::<TrainingData>::from(&dataset)).                                   *)
(***************************************************************************)
DatasetInit ==
    /\ ty = "Dataset"
    /\ value \in Datasets
    /\ data = << >>
    /\ tamper = Untampered
    /\ result = Fault("none")
    /\ pc = "new"
    /\ second = NoSecond
    /\ rest = Fault("none")
    /\ file = NoFile
    /\ threads = NotRunning
    /\ train = NotRunning
    /\ prog = NotRunning

from_dataset_call ==
    /\ pc = "new"
    /\ result' = from_dataset(value)
    /\ pc' = "converted"
    /\ UNCHANGED <<ty, value, data, tamper, second, rest, file, threads, train, prog>>

DatasetNext == from_dataset_call

DatasetSpec == DatasetInit /\ [][DatasetNext]_vars

(***************************************************************************)
(* main from the start of its loop (main.rs line 53) on.  `prog` holds the *)
(* position of main, the exit flag, the loop counters and the network;     *)
(* `file` is the content of NETWORK_PATH.  prog.started counts the         *)
(* train_parallel calls started with the flag set, prog.writes the writes  *)
(* of the file (both held at 2), prog.file0 is the file as main found it.  *)
(***************************************************************************)
MainInit ==
    /\ ty = "main"
    /\ value = << >>
    /\ data = << >>
    /\ tamper = Untampered
    /\ result = Fault("none")
    /\ pc = "main"
    /\ second = NoSecond
    /\ rest = Fault("none")
    /\ threads = NotRunning
    /\ train = NotRunning
    /\ \E layout \in network_layouts, existed \in BOOLEAN :
          LET network == Network_new(layout).val
          IN  /\ file = IF existed THEN fs_write(NoFile, serialize_data(network))
                        ELSE NoFile
              /\ prog = [pc       |-> "test",
                         exit     |-> FALSE,
                         epoch    |-> 0,
                         batch    |-> 0,
                         network  |-> network,
                         reloaded |-> Fault("none"),
                         started  |-> 0,
                         writes   |-> 0,
                         file0    |-> file]

\* The Ctrl-C handler: *exit = true.
ctrlc_handler ==
    /\ prog.pc \notin {"returned", "panicked"}
    /\ prog' = [prog EXCEPT !.exit = TRUE]
    /\ UNCHANGED <<ty, value, data, tamper, result, pc, second, rest, file, threads, train>>

\* test_network(&network, &test_data, true) at the head of an epoch.
test_network ==
    /\ prog.pc = "test"
    /\ prog' = [prog EXCEPT !.pc = "batch", !.batch = 0]
    /\ UNCHANGED <<ty, value, data, tamper, result, pc, second, rest, file, threads, train>>

\* network.train_parallel(..) is called for batch i.
train_parallel_start ==
    /\ prog.pc = "batch"
    /\ prog' = [prog EXCEPT
          !.pc = "training",
          !.started = IF prog.exit /\ @ < 2 THEN @ + 1 ELSE @]
    /\ UNCHANGED <<ty, value, data, tamper, result, pc, second, rest, file, threads, train>>

\* train_parallel returns, the network updated.
train_parallel_return ==
    /\ prog.pc = "training"
    /\ \E w \in FloatBits :
          prog' = [prog EXCEPT
              !.network = trained(@, w),
              !.pc = "check"]
    /\ UNCHANGED <<ty, value, data, tamper, result, pc, second, rest, file, threads, train>>

\* The end of a turn of `for i in 0..BATCHES`, and of `for i in 0..` behind
\* the last batch.
next_batch ==
    IF prog.batch + 1 < BATCHES
    THEN [prog EXCEPT !.pc = "batch", !.batch = @ + 1]
    ELSE [prog EXCEPT !.pc = "test",
                      !.epoch = IF @ < MaxEpochs THEN @ + 1 ELSE @]

\* if *exit.lock().unwrap() { .. }
check_exit ==
    /\ prog.pc = "check"
    /\ prog' = IF exit_checked(prog.batch) /\ prog.exit
               THEN [prog EXCEPT !.pc = "serialize"]
               ELSE next_batch
    /\ UNCHANGED <<ty, value, data, tamper, result, pc, second, rest, file, threads, train>>

\* serializer::serialize(&network, NETWORK_PATH).unwrap()
serialize_on_exit ==
    /\ prog.pc = "serialize"
    /\ file' = fs_write(file, serialize_data(prog.network))
    /\ prog' = [prog EXCEPT !.pc = "deserialize",
                            !.writes = IF @ < 2 THEN @ + 1 ELSE @]
    /\ UNCHANGED <<ty, value, data, tamper, result, pc, second, rest, threads, train>>

\* assert_eq!(serializer::deserialize(NETWORK_PATH).unwrap(), network);
\* return;
reload_and_return ==
    /\ prog.pc = "deserialize"
    /\ LET r == IF ~file.exists THEN Fault(NotFound)
                ELSE deserialize_data(file.bytes)
       IN  prog' = [prog EXCEPT
               !.reloaded = r,
               !.pc = IF r.ok /\ r.val = prog.network THEN "returned"
                      ELSE "panicked"]
    /\ UNCHANGED <<ty, value, data, tamper, result, pc, second, rest, file, threads, train>>

\* The steps of the main thread.
main_thread ==
    \/ test_network
    \/ train_parallel_start
    \/ train_parallel_return
    \/ check_exit
    \/ serialize_on_exit
    \/ reload_and_return

MainNext ==
    \/ ctrlc_handler
    \/ test_network
    \/ train_parallel_start
    \/ train_parallel_return
    \/ check_exit
    \/ serialize_on_exit
    \/ reload_and_return

\* The main thread is scheduled as long as it can take a step: every call
\* it makes returns (train_parallel joins all its workers).
MainSpec == MainInit /\ [][MainNext]_vars /\ WF_vars(main_thread)

(***************************************************************************)
(* Properties.                                                             *)
(***************************************************************************)
\* deserialize_binary has been given the buffer, tampered with as `kind`.
Decoded(kind) == pc = "deserialized" /\ tamper.kind = kind

\* The buffer is the codec's own output for `value`.
OwnOutput == pc \in {"serialized", "deserialized"} /\ tamper.kind = "none"

\* The strings of the decode arms of an enum derive.
ArmStrings(t) ==
    LET vs == enum_variants(t)
    IN  IF t = "Activation" THEN {stringify_arm(t, vs[i]) : i \in 1..Len(vs)}
        ELSE {variant_name_str(t, vs[i]) : i \in 1..Len(vs)}

\* C1: decoding a network's own encoding returns a network with the same
\* number of layers, each layer of the same kind and with equal contents at
\* the same index, and a consumed length equal to the encoded length.
C1_NetworkRoundTrip ==
    (Decoded("none") /\ ty \in {"Network", "net::Network"}) =>
        /\ result.ok
        /\ Len(result.val) = Len(value)
        /\ \A i \in 1..Len(value) :
              /\ result.val[i].kind = value[i].kind
              /\ result.val[i].layer = value[i].layer
        /\ result.len = Len(data)

\* C2: every strict prefix of the encoding of a Network, Vector, Matrix or
\* String makes deserialize_binary fault: no value is returned from a
\* truncated buffer.
C2_TruncatedFaults ==
    (Decoded("truncated")
     /\ ty \in {"Network", "net::Network", "Vector", "Matrix", "String"}) =>
        ~result.ok

\* C2 witness: a two-layer network that decodes from its full encoding has
\* faulted on the encoding with its last byte removed.
C2_Witness ==
    /\ Decoded("truncated") /\ ty = "net::Network" /\ Len(value) = 2
    /\ value[1].kind = "Dense" /\ value[2].kind = "Activation"
    /\ Len(data) + 1 = Len(serialize_binary(ty, value))
    /\ deserialize_binary(ty, serialize_binary(ty, value), 0).ok
    /\ ~result.ok

\* C3: a layer record whose tag is neither "Activation" nor "Dense" makes
\* Network::deserialize_binary fault; when the record is reached with a
\* readable tag the fault is the "Invalid layer tag" panic, whether or not
\* a payload follows the tag.
C3_UnknownLayerTagFaults ==
    (Decoded("forged") /\ ty \in {"Network", "net::Network"}
     /\ tamper.tag \notin {StrActivation, StrDense}) =>
        /\ ~result.ok
        /\ ((ty = "net::Network" \/ tamper.at = 8) /\ from_utf8_ok(tamper.tag, 1))
              => result.err = InvalidLayerTag

\* C3 witness: the second record of a two-layer network, tagged "Unknown"
\* with its payload kept, has been rejected.
C3_Witness ==
    /\ Decoded("forged") /\ ty = "net::Network" /\ Len(value) = 2
    /\ tamper.tag = <<85, 110, 107, 110, 111, 119, 110>>
    /\ tamper.at > 8 /\ tamper.keep
    /\ result.err = InvalidLayerTag

\* C4: a derived struct or field-less type faults on a buffer whose leading
\* tag differs from its own tag(); the comparison precedes every field, so
\* a readable foreign tag is a tag mismatch even when no field follows it.
C4_ForeignTagFaults ==
    (Decoded("forged") /\ ty \in {"Dense", "Unit"} /\ tamper.at = 0
     /\ tamper.tag # tag(ty)) =>
        /\ ~result.ok
        /\ from_utf8_ok(tamper.tag, 1) => result.err = TagMismatch

\* C4 witness: a Dense buffer cut to a foreign tag, no field behind it, has
\* been rejected by the tag comparison.
C4_Witness ==
    /\ Decoded("forged") /\ ty = "Dense" /\ ~tamper.keep
    /\ value.weights.rows > 0 /\ value.weights.cols > 0
    /\ tamper.tag = <<85, 110, 107, 110, 111, 119, 110>>
    /\ result.err = TagMismatch

\* C5: a derived struct encodes as its length-prefixed tag followed by its
\* fields' encodings in declaration order with nothing in between, and
\* decoding that output returns the struct and the encoded length (Dense:
\* tag, weights, biases).
C5_StructLayoutAndRoundTrip ==
    /\ (OwnOutput /\ ty = "Dense") =>
          data = to_be_bytes(5, 8) \o StrDense
                 \o Matrix_serialize_binary(value.weights)
                 \o Vector_serialize_binary(value.biases)
    /\ (Decoded("none") /\ ty = "Dense") =>
          /\ result.ok
          /\ result.val.weights = value.weights
          /\ result.val.biases = value.biases
          /\ result.len = Len(data)

\* C5 witness: a Dense with a non-square weight matrix and a bias vector has
\* been decoded from its own encoding.
C5_Witness ==
    /\ Decoded("none") /\ ty = "Dense"
    /\ value.weights.rows = 1 /\ value.weights.cols = 2 /\ Len(value.biases) = 2
    /\ result.ok /\ result.val = value

\* C6: with the enum derive of serialize_enum.rs, decoding the encoding of a
\* unit, tuple or named-field variant returns the same variant with the
\* same field values in the same positions, and the encoded length.
C6_EnumRoundTrip ==
    (Decoded("none") /\ ty = "TestEnum") =>
        /\ result.ok
        /\ result.val.variant = value.variant
        /\ Len(result.val.fields) = Len(value.fields)
        /\ \A i \in 1..Len(value.fields) : result.val.fields[i] = value.fields[i]
        /\ result.len = Len(data)

\* C6 witness: a named-field variant with two fields has been decoded.
C6_Witness ==
    /\ Decoded("none") /\ ty = "TestEnum" /\ value.variant = "Pair"
    /\ value.fields[1] = 258 /\ Len(value.fields[2]) = 2
    /\ result.ok /\ result.val = value

\* C7: with the two-tag enum derive of serialize-macro/src/lib.rs, decoding
\* the encoding of a variant returns that variant: the decoded type tag
\* followed by the decoded variant tag is the string of the variant's arm.
C7_TwoTagEnumRoundTrip ==
    (Decoded("none") /\ ty = "Activation") =>
        /\ result.ok
        /\ result.val = value
        /\ result.len = Len(data)

\* C8: an enum decode whose tag matches none of the enum's arms faults; once
\* the tag has been read (and, for the two-tag derive, the type tag has
\* passed its comparison) the fault is the "invalid enum variant" panic.
C8_UnknownVariantFaults ==
    /\ (Decoded("forged") /\ ty = "TestEnum"
        /\ tamper.tag \notin ArmStrings(ty)) =>
          /\ ~result.ok
          /\ from_utf8_ok(tamper.tag, 1) => result.err = InvalidVariant
    /\ (Decoded("forged") /\ ty = "Activation" /\ tamper.at > 0
        /\ (tag(ty) \o tamper.tag) \notin ArmStrings(ty)) =>
          /\ ~result.ok
          /\ from_utf8_ok(tamper.tag, 1) => result.err = InvalidVariant

\* C8 witness: a TestEnum buffer tagged "TestEnum::Unknown" has been rejected
\* as an invalid variant.
C8_Witness ==
    /\ Decoded("forged") /\ ty = "TestEnum" /\ tamper.keep
    /\ tamper.tag = StrTestEnum \o StrColons \o <<85, 110, 107, 110, 111, 119, 110>>
    /\ result.err = InvalidVariant

\* C9: a vector of length n encodes to 8 + 8n bytes, an 8-byte big-endian n
\* followed by the elements in index order, and decoding them returns a
\* vector of length n with the same elements in the same order, consuming
\* 8 + 8n bytes.
C9_VectorRoundTrip ==
    /\ (OwnOutput /\ ty = "Vector") =>
          /\ Len(data) = 8 + 8 * Len(value)
          /\ \A k \in 1..7 : data[k] = 0
          /\ data[8] = Len(value)
          /\ \A i \in 1..Len(value) : from_be_bytes(data, 8 * i) = value[i]
    /\ (Decoded("none") /\ ty = "Vector") =>
          /\ result.ok
          /\ Len(result.val) = Len(value)
          /\ \A i \in 1..Len(value) : result.val[i] = value[i]
          /\ result.len = 8 + 8 * Len(value)

\* C9 witness: a vector of two different elements has been decoded.
C9_Witness ==
    /\ Decoded("none") /\ ty = "Vector" /\ Len(value) = 2
    /\ value[1] # value[2]
    /\ result.ok /\ result.len = 24

\* C10: decoding the encoding of an R x C matrix, R or C possibly 0, returns
\* a matrix of R rows and C columns with the same element at every
\* (row, col), consuming 16 + 8 * R * C bytes.
C10_MatrixRoundTrip ==
    (Decoded("none") /\ ty = "Matrix") =>
        /\ result.ok
        /\ result.val.rows = value.rows
        /\ result.val.cols = value.cols
        /\ Len(result.val.data) = value.cols
        /\ \A col \in 0..(value.cols - 1) :
              /\ Len(result.val.data[col + 1]) = value.rows
              /\ \A row \in 0..(value.rows - 1) :
                    Matrix_at(result.val, col, row) = Matrix_at(value, col, row)
        /\ result.len = 16 + 8 * value.rows * value.cols

\* C10 witness: a 1 x 2 matrix has been decoded as 1 x 2.
C10_Witness ==
    /\ Decoded("none") /\ ty = "Matrix"
    /\ value.rows = 1 /\ value.cols = 2
    /\ result.ok /\ result.val.rows = 1 /\ result.val.cols = 2

\* C11: in the encoding of an R x C matrix bytes 0..8 hold R, bytes 8..16 hold
\* C, and for every row < R and col < C the 8-byte word at byte offset
\* 16 + 8 * (col * R + row) is the encoding of the element at row `row`,
\* column `col` (column-major order).
C11_ColumnMajorLayout ==
    (OwnOutput /\ ty = "Matrix") =>
        LET R == value.rows
            C == value.cols
        IN  /\ Len(data) = 16 + 8 * R * C
            /\ SubSeq(data, 1, 8) = <<0, 0, 0, 0, 0, 0, 0, R>>
            /\ SubSeq(data, 9, 16) = <<0, 0, 0, 0, 0, 0, 0, C>>
            /\ \A row \in 0..(R - 1), col \in 0..(C - 1) :
                  LET at == 16 + 8 * (col * R + row)
                      x == value.data[col + 1][row + 1]
                  IN  /\ \A k \in 1..4 : data[at + k] = 0
                      /\ data[at + 5] * 16777216 + data[at + 6] * 65536
                         + data[at + 7] * 256 + data[at + 8] = x

\* C11 witness: a 2 x 2 matrix has been encoded, and the word at byte offset
\* 16 + 8 * (1 * 2 + 0) holds its element at row 0, column 1, which differs
\* from the element at row 1, column 0.
C11_Witness ==
    /\ pc = "serialized" /\ tamper.kind = "none" /\ ty = "Matrix"
    /\ value.rows = 2 /\ value.cols = 2
    /\ value.data[2][1] # value.data[1][2]
    /\ from_be_bytes(data, 32) = value.data[2][1]

\* C12: for every integer type and every value v of it, decoding the
\* encoding of v returns (v, w), w = 1, 2, 4 or 8 the width of the type
\* (8 for usize and isize); f32 and f64 return the same bit pattern with
\* w = 4 or 8. Only the first w bytes are read: the result is the same
\* when other bytes follow them in the buffer.
C12_ScalarRoundTrip ==
    (pc = "deserialized" /\ tamper.kind \in {"none", "extended"}
     /\ ty \in Scalars) =>
        /\ result.ok
        /\ result.val = value
        /\ result.len = size_of(ty)
        /\ size_of(ty) = CASE ty \in {"u8", "i8"} -> 1
                            [] ty \in {"u16", "i16"} -> 2
                            [] ty \in {"u32", "i32", "f32"} -> 4
                            [] OTHER -> 8

\* C12 witness: a negative i16 has been decoded from a buffer that holds
\* more bytes than its two.
C12_Witness ==
    /\ Decoded("extended") /\ ty = "i16" /\ value = -259
    /\ Len(data) > 2
    /\ result.ok /\ result.val = -259 /\ result.len = 2

\* floor(v / 256^p), by p floor divisions.
RECURSIVE FloorShift(_, _)
FloorShift(v, p) == IF p = 0 THEN v ELSE FloorShift(v \div 256, p - 1)

\* C13: a w-byte integer v encodes to exactly w bytes, no tag and no length
\* before them, most significant first: byte k (0-based) is
\* floor((v mod 2^(8w)) / 256^(w-1-k)) mod 256, a negative v in two's
\* complement. 256^(w-1-k) divides 2^(8w), so that byte is
\* floor(v / 256^(w-1-k)) mod 256, which is how it is computed for every
\* width; for w <= 2 it is also computed as written.
C13_BigEndianBytes ==
    (OwnOutput /\ ty \in Unsigned \cup Signed) =>
        LET w == size_of(ty)
        IN  /\ Len(data) = w
            /\ \A k \in 0..(w - 1) :
                  data[k + 1] = FloorShift(value, w - 1 - k) % 256
            /\ w <= 2 =>
                  \A k \in 0..(w - 1) :
                     data[k + 1] =
                        ((value % (256 ^ w)) \div (256 ^ (w - 1 - k))) % 256

\* C13 witness: the i32 -16909061, the complement of 0x01020304, has been
\* encoded as FE FD FC FB.
C13_Witness ==
    /\ pc = "serialized" /\ tamper.kind = "none"
    /\ ty = "i32" /\ value = -16909061
    /\ data = <<254, 253, 252, 251>>

\* C14: a string encodes as the 8-byte big-endian count of its UTF-8 bytes
\* (not of its characters) followed by exactly those bytes, and decoding
\* that returns the string and 8 + its byte length, the empty string
\* included.
C14_StringLayoutAndRoundTrip ==
    /\ (OwnOutput /\ ty = "String") =>
          /\ Len(data) = 8 + Len(value)
          /\ SubSeq(data, 1, 8) = <<0, 0, 0, 0, 0, 0, 0, Len(value)>>
          /\ SubSeq(data, 9, Len(data)) = value
    /\ (Decoded("none") /\ ty = "String") =>
          /\ result.ok
          /\ result.val = value
          /\ result.len = 8 + Len(value)

\* C14 witness: the one-character, two-byte string U+00E9 has been encoded
\* with length 2 and decoded with consumed length 10.
C14_Witness ==
    /\ Decoded("none") /\ ty = "String" /\ value = <<195, 169>>
    /\ data[8] = 2
    /\ result.ok /\ result.val = <<195, 169>> /\ result.len = 10

\* The decode gets as far as the forged tag: what precedes it in the buffer
\* decodes. With the derived layer codecs that is a network whose records
\* before the forged one are all Dense.
TagReached ==
    ty = "Network" =>
        \A i \in 1..Len(value) :
           Len(serialize_binary(ty, SubSeq(value, 1, i - 1))) < tamper.at
              => value[i].kind = "Dense"

\* C15: String::deserialize_binary and the tag readers of the struct, enum
\* and network decoders fault when the declared number of bytes is there
\* but is not valid UTF-8: no value is returned, and a reader that gets to
\* the tag stops at it with the UTF-8 error, before any comparison or
\* dispatch on the tag.
C15_InvalidUtf8Faults ==
    (Decoded("forged") /\ tamper.tag \in InvalidUtf8Tags) =>
        /\ ~result.ok
        /\ TagReached => result.err = InvalidUtf8

\* C15 witness: the second layer record of a network, its tag replaced by
\* the byte FF with the payload kept, has been rejected as invalid UTF-8.
C15_Witness ==
    /\ Decoded("forged") /\ ty = "net::Network" /\ Len(value) = 2
    /\ tamper.tag = <<255>> /\ tamper.at > 8 /\ tamper.keep
    /\ Len(data) > tamper.at + 9
    /\ result.err = InvalidUtf8

\* C16: for two supported values a and b of any types, decoding
\* encode(a) ++ encode(b) at offset 0 returns (a, |encode(a)|), and decoding
\* it again at offset |encode(a)| returns (b, |encode(b)|).
C16_OffsetAdditivity ==
    /\ Decoded("concat") =>
          /\ result.ok
          /\ result.val = value
          /\ result.len = tamper.at
    /\ pc = "rest" =>
          /\ rest.ok
          /\ rest.val = second.value
          /\ rest.len = Len(data) - tamper.at

\* C17: after any sequence of serialize_network calls on a path,
\* deserialize_network on it returns a network equal to the one of the most
\* recent call; a save replaces the whole file, so the file holds the
\* encoding of that network and no byte of an earlier, longer save.
C17_LoadReturnsLastSaved ==
    /\ pc = "saved" => file = [exists |-> TRUE,
                               bytes |-> serialize_binary(ty, value)]
    /\ (pc = "loaded" /\ file.exists /\ tamper.kind = "none") =>
          /\ result.ok
          /\ result.val = value

\* C18: loading a file whose content is the encoding of a network n
\* followed by any bytes t returns a network equal to n: the bytes behind
\* the consumed length are ignored and cause no error.
C18_TrailingBytesIgnored ==
    (pc = "loaded" /\ tamper.kind = "extended") =>
        /\ result.ok
        /\ result.val = value

\* The 8 bytes of b at byte offset `at` are the big-endian word x.
WordIs(b, at, x) ==
    /\ Len(b) >= at + 8
    /\ SubSeq(b, at + 1, at + 8) =
          <<0, 0, 0, 0, (x \div 16777216) % 256, (x \div 65536) % 256,
            (x \div 256) % 256, x % 256>>

\* b holds [u64 5]["Dense"] at byte offset `at`.
TagDenseAt(b, at) ==
    /\ WordIs(b, at, 5)
    /\ Len(b) >= at + 13
    /\ SubSeq(b, at + 9, at + 13) = <<68, 101, 110, 115, 101>>

\* 16 + 8 * rows * cols + 8 + 8 * bias_len
DensePayloadLen(d) ==
    16 + 8 * d.weights.rows * d.weights.cols + 8 + 8 * Len(d.biases)

\* b holds [u64 rows][u64 cols][rows * cols f64 column-major][u64 bias_len]
\* [bias_len f64] of the Dense d at byte offset `at`.
DensePayloadAt(b, at, d) ==
    LET R == d.weights.rows
        C == d.weights.cols
        B == Len(d.biases)
    IN  /\ WordIs(b, at, R)
        /\ WordIs(b, at + 8, C)
        /\ \A col \in 0..(C - 1), row \in 0..(R - 1) :
              WordIs(b, at + 16 + 8 * (col * R + row),
                     d.weights.data[col + 1][row + 1])
        /\ WordIs(b, at + 16 + 8 * R * C, B)
        /\ \A i \in 0..(B - 1) :
              WordIs(b, at + 16 + 8 * R * C + 8 + 8 * i, d.biases[i + 1])

\* The byte offset in the file at which the record of layer i starts (the
\* end of the file for i = the number of layers + 1).
RecordOffset(i) == Len(serialize_binary(ty, SubSeq(value, 1, i - 1)))

\* C19, as stated: the file starts at byte 0 with the 8-byte big-endian layer
\* count, and each Dense record is [u64 5]["Dense"] followed immediately by
\* [u64 rows][u64 cols][rows * cols f64 column-major][u64 bias_len]
\* [bias_len f64] and nothing else: 13 + 16 + 8 * rows * cols + 8 +
\* 8 * bias_len bytes.
C19_DenseRecordLayout ==
    pc = "saved" =>
        /\ WordIs(file.bytes, 0, Len(value))
        /\ \A i \in 1..Len(value) :
              value[i].kind = "Dense" =>
                 /\ TagDenseAt(file.bytes, RecordOffset(i))
                 /\ DensePayloadAt(file.bytes, RecordOffset(i) + 13,
                                   value[i].layer)
                 /\ RecordOffset(i + 1) - RecordOffset(i)
                       = 13 + DensePayloadLen(value[i].layer)

\* C19, amended: the file starts at byte 0 with the 8-byte big-endian layer
\* count, and each Dense record is [u64 5]["Dense"] followed by the Dense
\* encoding of the codec in force and nothing else. With the hand-written
\* codec (src/src/network/serializer.rs) that is the payload [u64 rows]
\* [u64 cols][f64 column-major][u64 bias_len][f64] itself, 13 + 16 +
\* 8 * rows * cols + 8 + 8 * bias_len bytes in all; with the derived codec
\* (neural-network) it is the struct's own [u64 5]["Dense"] tag and then
\* that payload, 26 + 16 + 8 * rows * cols + 8 + 8 * bias_len bytes in all.
C19_DenseRecordLayoutByCodec ==
    pc = "saved" =>
        /\ WordIs(file.bytes, 0, Len(value))
        /\ \A i \in 1..Len(value) :
              value[i].kind = "Dense" =>
                 LET own == IF ty = "Network" THEN 13 ELSE 0
                 IN  /\ TagDenseAt(file.bytes, RecordOffset(i))
                     /\ ty = "Network" =>
                           TagDenseAt(file.bytes, RecordOffset(i) + 13)
                     /\ DensePayloadAt(file.bytes, RecordOffset(i) + 13 + own,
                                       value[i].layer)
                     /\ RecordOffset(i + 1) - RecordOffset(i)
                           = 13 + own + DensePayloadLen(value[i].layer)

\* C19 witness: a neural-network file of a 2 x 2 Dense and a 1 x 2 Dense has
\* been written: the second record starts at byte 8 + 98 with its two tags
\* and the file is 180 bytes long.
C19_Witness ==
    /\ pc = "saved" /\ ty = "Network" /\ Len(value) = 2
    /\ value[1].kind = "Dense" /\ value[1].layer.weights.rows = 2
    /\ value[1].layer.weights.cols = 2
    /\ value[2].kind = "Dense" /\ value[2].layer.weights.rows = 1
    /\ value[2].layer.weights.cols = 2
    /\ TagDenseAt(file.bytes, 106) /\ TagDenseAt(file.bytes, 119)
    /\ Len(file.bytes) = 180

\* C20: with the numeric-code codec (src/src/network/serializer.rs) an
\* Activation encodes as one 8-byte big-endian code, Sigmoid = 0, ReLU = 1,
\* Tanh = 2; decoding it returns the same variant and the consumed length
\* 8; decoding a code greater than 2 faults and returns no variant.
C20_ActivationCode ==
    /\ (OwnOutput /\ ty = "net::Activation") =>
          data = <<0, 0, 0, 0, 0, 0, 0,
                   CASE value.variant = "Sigmoid" -> 0
                     [] value.variant = "ReLU" -> 1
                     [] value.variant = "Tanh" -> 2>>
    /\ (Decoded("none") /\ ty = "net::Activation") =>
          /\ result.ok
          /\ result.val.variant = value.variant
          /\ result.len = 8
    /\ Decoded("code") =>
          /\ ~result.ok
          /\ result.err = InvalidActivation

\* C20 witness: the code 3, one above the last variant's, has been rejected
\* as an invalid activation function.
C20_Witness ==
    /\ Decoded("code") /\ ty = "net::Activation"
    /\ data = <<0, 0, 0, 0, 0, 0, 0, 3>>
    /\ result.err = InvalidActivation

\* The file is what serialize wrote for `value`, and nothing touched it.
LegacyOwnFile == pc \in {"saved", "loaded"} /\ tamper = NoForgery /\ file.exists

\* The four bytes of the i-th activation code of the file.
ActivationWord(i) ==
    LET at == 12 + 4 * Len(value.layers) + 4 * (i - 1)
    IN  SubSeq(file.bytes, at + 1, at + 4)

\* C22: for every network that Network::new builds from a layer spec of at
\* least one entry, deserialize(path) after serialize(network, path)
\* returns a network equal to it (input_size, the number of layers, and
\* each layer's weights, biases and activation), and the file holds the
\* activation codes Sigmoid = 0, ReLU = 1, Softmax = 2.
C22_LegacyRoundTrip ==
    LegacyOwnFile =>
        /\ \A i \in 1..Len(value.layers) :
              ActivationWord(i) =
                  CASE value.layers[i].activation = "Sigmoid" -> <<0, 0, 0, 0>>
                    [] value.layers[i].activation = "ReLU"    -> <<0, 0, 0, 1>>
                    [] value.layers[i].activation = "Softmax" -> <<0, 0, 0, 2>>
        /\ pc = "loaded" =>
              /\ result.ok
              /\ result.val.input_size = value.input_size
              /\ Len(result.val.layers) = Len(value.layers)
              /\ \A i \in 1..Len(value.layers) :
                    /\ result.val.layers[i].weights = value.layers[i].weights
                    /\ result.val.layers[i].biases = value.layers[i].biases
                    /\ result.val.layers[i].activation = value.layers[i].activation
              /\ result.val = value

\* A two-layer network with a 2 x 1 ReLU layer and a Softmax layer has been
\* saved and loaded back.
C22_Witness ==
    /\ LegacyOwnFile /\ pc = "loaded" /\ result.ok /\ result.val = value
    /\ Len(value.layers) = 2
    /\ value.input_size = 1
    /\ value.layers[1].activation = "ReLU"
    /\ value.layers[1].weights.rows = 2
    /\ value.layers[1].weights.cols = 1
    /\ value.layers[2].activation = "Softmax"
    /\ Matrix_at(result.val.layers[2].weights, 1, 0) # Matrix_at(result.val.layers[2].weights, 0, 1)

\* C23: deserialize faults when the first four bytes of the file are not the
\* big-endian 0x12092004, and with the magic-number assertion whatever the
\* rest of the file holds (a forged activation code, a missing header), so
\* before any count, size or weight is read; a file whose only defect is an
\* activation code other than 0, 1, 2 faults in deserialize_activation.
C23_MagicAndActivationFaults ==
    (pc = "loaded" /\ file.exists) =>
        /\ (Len(file.bytes) < 4 \/ SubSeq(file.bytes, 1, 4) # <<18, 9, 32, 4>>)
              => ~result.ok
        /\ (Len(file.bytes) >= 4 /\ SubSeq(file.bytes, 1, 4) # <<18, 9, 32, 4>>)
              => result = Fault(InvalidMagic)
        /\ (tamper.code /\ ~tamper.magic /\ ~tamper.cut)
              => result = Fault(InvalidActivation)

\* A file with a forged magic number and a forged activation code has been
\* loaded; the fault is that of the magic number.
C23_Witness ==
    /\ pc = "loaded" /\ tamper.magic /\ tamper.code
    /\ Len(value.layers) >= 1
    /\ result = Fault(InvalidMagic)

\* The declared count at offset `at` of the buffer handed to the decoder.
Declared(at) == from_be_bytes(data, at)

\* C24: whenever a deserialize_binary returns (value, consumed), consumed is
\* at most the length of the input slice, and the value is complete: a
\* Vector (String) has the declared length and every element is the word
\* of the buffer at its place, a Matrix has the declared rows and columns
\* and every element read, a Network has exactly the declared number of
\* layers. No value is returned for a buffer that ends before the declared
\* counts are satisfied.
C24_CompleteOrFault ==
    /\ (pc \in {"deserialized", "rest"} /\ result.ok) =>
          /\ result.len <= Len(data)
          /\ ty \in Scalars => result.len = size_of(ty)
          /\ ty = "String" =>
                /\ Len(result.val) = Declared(0)
                /\ result.len = 8 + Declared(0)
          /\ ty = "Vector" =>
                /\ Len(result.val) = Declared(0)
                /\ result.len = 8 + 8 * Declared(0)
                /\ \A i \in 1..Declared(0) :
                      result.val[i] = from_be_bytes(data, 8 * i)
          /\ ty = "Matrix" =>
                /\ result.val.rows = Declared(0)
                /\ result.val.cols = Declared(8)
                /\ Len(result.val.data) = Declared(8)
                /\ result.len = 16 + 8 * Declared(0) * Declared(8)
                /\ \A c \in 1..Declared(8) :
                      /\ Len(result.val.data[c]) = Declared(0)
                      /\ \A r \in 1..Declared(0) :
                            result.val.data[c][r] =
                                from_be_bytes(data, 16 + 8 * ((c - 1) * Declared(0) + (r - 1)))
          /\ ty \in {"Network", "net::Network"} =>
                /\ Len(result.val) = Declared(0)
                /\ \A i \in 1..Declared(0) :
                      result.val[i].kind \in {"Activation", "Dense"}
    /\ (pc = "rest" /\ rest.ok) => result.len + rest.len <= Len(data)

\* A two-element Vector whose declared length was forged to 1 has been
\* decoded: one element is returned, and 16 of the 24 bytes are consumed.
C24_Witness ==
    /\ pc = "deserialized" /\ ty = "Vector" /\ tamper.kind = "length"
    /\ Len(value) = 2
    /\ result.ok /\ Len(result.val) = 1 /\ result.len = 16 /\ Len(data) = 24

\* The buffer is the codec's own output, or that output with bytes behind it.
OwnOutputFirst ==
    \/ OwnOutput
    \/ pc \in {"tampered", "deserialized", "rest"} /\ tamper.kind \in {"extended", "concat"}

\* "TestEnum::OneTest"
StrTestEnumOneTest ==
    <<84, 101, 115, 116, 69, 110, 117, 109, 58, 58, 79, 110, 101, 84, 101, 115, 116>>

\* C26: a field-less aggregate (Unit, serialize_union.rs) encodes to exactly
\* its length-prefixed tag, 8 + 4 bytes, and its decode consumes exactly
\* those bytes; a field-less variant of a serialize_enum.rs enum
\* (TestEnum::OneTest) encodes to exactly the length-prefixed
\* "TestEnum::OneTest", and its decode consumes no byte beyond that tag,
\* whatever follows in the buffer.
C26_FieldlessIsTagOnly ==
    /\ (OwnOutputFirst /\ ty = "Unit") =>
          /\ SubSeq(data, 1, 12) = <<0, 0, 0, 0, 0, 0, 0, 4>> \o <<85, 110, 105, 116>>
          /\ tamper.kind = "none" => Len(data) = 8 + 4
          /\ pc \in {"deserialized", "rest"} =>
                result = Ok([unit |-> TRUE], 8 + 4)
    /\ (OwnOutputFirst /\ ty = "TestEnum" /\ value.variant = "OneTest") =>
          /\ SubSeq(data, 1, 25) = <<0, 0, 0, 0, 0, 0, 0, 17>> \o StrTestEnumOneTest
          /\ tamper.kind = "none" => Len(data) = 8 + 17
          /\ pc \in {"deserialized", "rest"} =>
                result = Ok(value, 8 + 17)

\* TestEnum::OneTest has been decoded from a buffer that goes on behind its
\* tag: 25 bytes are consumed.
C26_Witness ==
    /\ Decoded("extended") /\ ty = "TestEnum" /\ value.variant = "OneTest"
    /\ result.ok /\ result.len = 25 /\ Len(data) > 25

\* C25: serialize_binary leaves the value unchanged, deserialize_binary
\* leaves its input bytes unchanged, and the calls of two threads on values
\* and buffers of their own share no state: under every interleaving of the
\* two threads, each thread's buffer is the encoding of its value and each
\* thread's decode returns what the decode of that encoding returns when
\* the thread runs alone.
C25_ThreadsIndependent ==
    \A t \in ThreadIds :
        /\ threads.value[t] = threads.input[t].value
        /\ threads.pc[t] \in {"serialized", "done"} =>
              threads.buffers[t] =
                  serialize_binary(threads.input[t].ty, threads.input[t].value)
        /\ threads.pc[t] = "done" =>
              threads.result[t] =
                  deserialize_binary(threads.input[t].ty,
                      serialize_binary(threads.input[t].ty, threads.input[t].value), 0)

\* Both threads are done with different values, and each wrote part of its
\* buffer while the other was in the middle of writing its own.
C25_Witness ==
    /\ \A t \in ThreadIds : threads.pc[t] = "done" /\ threads.result[t].ok
    /\ threads.input[1].ty = "Vector"
    /\ threads.input[2].ty = "net::Network"
    /\ threads.overlap

\* The 0-based indices of `data` read by the workers spawned so far.
ReadByWorkers == UNION {train.workers[w].read : w \in 1..Len(train.workers)}

\* The layer is as it was when train_parallel was called.
LayerUntouched == train.layer = InitialLayer /\ train.applied = 0

\* Worker i (0-based) reads inside data[i*block_size .. (i+1)*block_size]
\* with block_size = floor(len / thread_count), and all of it by its end.
C27_WorkerRanges ==
    /\ train.block_size = Len(train.data) \div train.thread_count
    /\ \A w \in 1..Len(train.workers) :
          LET range == ((w - 1) * train.block_size)..(w * train.block_size - 1)
          IN  /\ train.workers[w].read \subseteq range
              /\ train.workers[w].pc \in {"finished", "joined"} =>
                    train.workers[w].read = range

\* The workers' index sets are pairwise disjoint.
C27_RangesDisjoint ==
    \A v, w \in 1..Len(train.workers) :
        v # w => train.workers[v].read \cap train.workers[w].read = {}

\* No layer is updated before every worker has been joined.
C27_UpdateAfterJoins ==
    ~LayerUntouched =>
        /\ Len(train.workers) = train.thread_count
        /\ \A w \in 1..Len(train.workers) : train.workers[w].pc = "joined"

\* C27: in train_parallel with thread_count >= 1, worker i computes over
\* data[i*block_size .. (i+1)*block_size] with block_size =
\* floor(len / thread_count); these ranges are pairwise disjoint and
\* together cover every element of data, for every length of data, also one
\* that thread_count does not divide; and no layer is updated before all
\* workers have been joined.
C27_BlocksPartitionData ==
    /\ C27_WorkerRanges
    /\ C27_RangesDisjoint
    /\ C27_UpdateAfterJoins
    /\ train.pc \in {"updating", "returned"} =>
          ReadByWorkers = 0..(Len(train.data) - 1)

\* The sum of the gradients of data[from..to] (1-based), each multiplied by
\* learning_rate / data_len.
RECURSIVE ScaledSum(_, _, _, _)
ScaledSum(from, to, learning_rate, data_len) ==
    IF from > to THEN [weights |-> 0, biases |-> 0]
    ELSE LET s == ScaledSum(from + 1, to, learning_rate, data_len)
             g == back_propagate(train.data[from])[1]
         IN  [weights |-> s.weights + times_rate_over(g.weights, learning_rate, data_len),
              biases  |-> s.biases + times_rate_over(g.biases, learning_rate, data_len)]

\* C30: calc_gradients returns, per layer, the sum over all samples of its
\* slice of that sample's gradients, each multiplied by
\* learning_rate / data.len(), the first sample included (so that the
\* result does not depend on the order of the samples).
C30_EverySampleScaled ==
    \A w \in 1..Len(train.workers) :
        LET me == train.workers[w]
        IN  (me.pc \in {"finished", "joined"} /\ me.end > me.start) =>
                me.deltas = << ScaledSum(me.start + 1, me.end,
                                         train.learning_rate, me.end - me.start) >>

\* Every target has length 10 and exactly one element 1.0, the others 0.0.
C29_ExactlyOneOne ==
    pc = "converted" =>
        /\ result.ok
        /\ Len(result.val) = Len(value.labels)
        /\ \A i \in 1..Len(result.val) :
              /\ Len(result.val[i].target) = 10
              /\ Cardinality({k \in 1..10 : result.val[i].target[k] = 1}) = 1
              /\ \A k \in 1..10 : result.val[i].target[k] \in {0, 1}

\* C29: converting a Dataset into training data gives every sample a target
\* vector of length 10 with exactly one element 1.0, and two samples with
\* different labels in 0..9 get different target vectors (the position of
\* the 1.0 identifies the label).
C29_OneHotTargets ==
    /\ C29_ExactlyOneOne
    /\ pc = "converted" =>
          \A i, j \in 1..Len(result.val) :
              value.labels[i] # value.labels[j] =>
                  result.val[i].target # result.val[j].target

\* What holds of main at every moment: at most one train_parallel call is
\* started with the flag set, the file is written at most once and only
\* with the flag set, the assertion on the reloaded network never fails,
\* and when main has returned the file has been written once and holds the
\* network that is in memory.
C28_ExitSafety ==
    /\ prog.started <= 1
    /\ prog.writes <= 1
    /\ prog.pc # "panicked"
    /\ ~prog.exit => (prog.writes = 0 /\ file = prog.file0)
    /\ prog.pc \in {"serialize", "deserialize", "returned"} => prog.exit
    /\ prog.pc = "returned" =>
          /\ prog.writes = 1
          /\ file = [exists |-> TRUE, bytes |-> serialize_data(prog.network)]
          /\ prog.reloaded = Ok(prog.network, 0)

====
